---------------------------- MODULE Spec2Model ----------------------------
(***************************************************************************)
(* Token-Flow-API: the Tenant Gate.                                        *)
(*                                                                         *)
(* State: the relational tables users / subscriptions / api_keys /         *)
(* api_usage_logs / webhook_events, the KV store behind the rate limiter,  *)
(* in-process LRU table of limiter objects, the wall clock, and the        *)
(* position of every HTTP request that is being served.  One action per    *)
(* awaited step of a middleware or handler: node serves requests           *)
(* concurrently and interleaves them at every await.                       *)
(***************************************************************************)
EXTENDS Integers, Sequences, FiniteSets, TLC

(***************************************************************************)
(* Bounds of the model.                                                    *)
(***************************************************************************)
MaxUsers == 2
MaxKeys == 3
MaxInFlight == 2
MaxTicks == 2
MaxMonths == 1
\* the clock advances in steps of TickSeconds within a month; a month is
\* SecondsPerMonth long
TickSeconds == 30
SecondsPerMonth == 2592000
\* where the range of the key hashes starts, and that of the key prefixes
HashBase == 1000
PrefixBase == 2000
\* addresses a transfer may name
MaxAddresses == 5
\* the slots an indexer gets through
MaxSlot == 3
\* the capacity of a limiter table (1000 in the program) scaled down so that
\* the keys within the bounds can fill it
TableSize == 2
\* the limit of a traversal on the number of paths (1000 in the program),
\* scaled down so that a traversal within the bounds can reach it
PathsCap == 2

(***************************************************************************)
(* The plan catalog of the migration's seed rows, scaled down so that a    *)
(* quota and a per-minute limit can be exhausted within the bounds (the    *)
(* seed has 1000/10, 10000/60 and 100000/600).                             *)
(***************************************************************************)
StarterQuota == 1
StarterRate == 1
ProQuota == 2
ProRate == 2
EnterpriseQuota == 3
EnterpriseRate == 3

(***************************************************************************)
(* Program constants.                                                      *)
(***************************************************************************)
Duration == 60
BlockDuration == 60
LimiterMaxSize == 1000
\* seconds (3600000 ms)
LimiterTtl == 3600
\* characters of a hex SHA-256 digest
HexLen == 64
\* new CircuitBreaker(5, 60000, 2): failures that open the circuit, the
\* seconds it stays open, successes that close it
FailureThreshold == 5
OpenSeconds == 60
SuccessThreshold == 2
\* 0.1 wrapped SOL, in hundredths
Dust == 10
\* the proximity checks: hops searched, rows per address (LIMIT 10)
MaxHops == 2
FanOut == 10
\* maxDepth is clamped to 10; a traversal stops once more than 10000
\* addresses are visited
MaxDepthLimit == 10
VisitedCap == 10000

NULL == 0 - 1

UserIds == 1..MaxUsers
KeyIds == 1..MaxKeys
Slots == 1..MaxInFlight
Emails == {"a@x.co", "b@x.co"}
OneEmail == {"a@x.co"}
ApixIds == {"ext-1"}
PlanNames == {"starter", "pro", "enterprise"}
\* plan strings a caller may send: two of the catalog and one that is not in it
PlanInputs == {"starter", "pro", "gold"}

VARIABLES users, subs, apiKeys, logs, events, now, kvUp, rl, limiters, reqs,
          admitted, admits, revoked,
          walk, risk, helius, ml, activity, cyc, prox, ent, lru, store,
  indexer

dbVars == <<users, subs, apiKeys, logs, events>>
rlVars == <<rl, limiters>>
histVars == <<admitted, admits, revoked>>
\* the tenant gate, and the analysis services behind it
gateVars == <<dbVars, now, kvUp, rlVars, reqs, histVars>>
svcVars == <<walk, risk, helius, ml, activity, cyc, prox, ent, lru, store,
  indexer>>
\* each service leaves the gate and the other services alone
besidesWalk == <<gateVars, risk, helius, ml, activity, cyc, prox, ent, lru,
  store, indexer>>
besidesRisk == <<gateVars, walk, helius, ml, activity, cyc, prox, ent, lru,
  store, indexer>>
besidesHelius == <<gateVars, walk, risk, ml, activity, cyc, prox, ent, lru,
  store, indexer>>
besidesMl == <<gateVars, walk, risk, helius, activity, cyc, prox, ent, lru,
  store, indexer>>
besidesActivity == <<gateVars, walk, risk, helius, ml, cyc, prox, ent, lru,
  store, indexer>>
besidesCyc == <<gateVars, walk, risk, helius, ml, activity, prox, ent, lru,
  store, indexer>>
besidesProx == <<gateVars, walk, risk, helius, ml, activity, cyc, ent, lru,
  store, indexer>>
besidesEnt == <<gateVars, walk, risk, helius, ml, activity, cyc, prox, lru,
  store, indexer>>
besidesLru == <<gateVars, walk, risk, helius, ml, activity, cyc, prox, ent,
  store, indexer>>
besidesStore == <<gateVars, walk, risk, helius, ml, activity, cyc, prox,
  ent, lru, indexer>>
besidesIndexer == <<gateVars, walk, risk, helius, ml, activity, cyc, prox,
  ent, lru, store>>
vars == <<users, subs, apiKeys, logs, events, now, kvUp, rl, limiters, reqs,
          admitted, admits, revoked,
          walk, risk, helius, ml, activity, cyc, prox, ent, lru, store,
  indexer>>

(***************************************************************************)
(* Small helpers.                                                          *)
(***************************************************************************)
Min(a, b) == IF a <= b THEN a ELSE b

Max(a, b) == IF a >= b THEN a ELSE b

SetMin(S) == CHOOSE x \in S : \A y \in S : x <= y

Today == now \div SecondsPerMonth

RECURSIVE SeqCount(_, _)
SeqCount(s, lo) ==
  IF s = <<>> THEN 0
  ELSE (IF Head(s) > lo THEN 1 ELSE 0) + SeqCount(Tail(s), lo)

SelectAfter(s, lo) == SelectSeq(s, LAMBDA t : t > lo)

(***************************************************************************)
(* plan_limits: the seeded catalog.                                        *)
(***************************************************************************)
PlanLimits(p) ==
  CASE p = "starter" -> [plan |-> p, monthly_quota |-> StarterQuota,
                         rate_limit_per_minute |-> StarterRate]
    [] p = "pro" -> [plan |-> p, monthly_quota |-> ProQuota,
                     rate_limit_per_minute |-> ProRate]
    [] p = "enterprise" -> [plan |-> p, monthly_quota |-> EnterpriseQuota,
                            rate_limit_per_minute |-> EnterpriseRate]

(***************************************************************************)
(* hashApiKey: HMAC-SHA256(salt, rawKey), modelled as an injective map of  *)
(* raw keys into a disjoint range; raw key 0 is the absent header.         *)
(***************************************************************************)
hashApiKey(raw) == HashBase + raw

(***************************************************************************)
(* Queries on the tables.                                                  *)
(***************************************************************************)
ActiveSubs(u) == {s \in subs : s.user_id = u /\ s.status = "active"}

getUserByEmail(e) == {u \in users : u.email = e}

getUserByApixId(x) == {u \in users : u.apix_user_id = x}

UserRow(u) == CHOOSE r \in users : r.id = u

\* is_over_quota(p_user_id): TRUE when no active subscription is found
is_over_quota(u) ==
  IF ActiveSubs(u) = {} THEN TRUE
  ELSE LET s == CHOOSE s \in ActiveSubs(u) : TRUE
       IN s.current_usage >= s.monthly_quota

\* increment_user_usage(p_user_id)
increment_user_usage(u) ==
  {IF s.user_id = u /\ s.status = "active"
     THEN [s EXCEPT !.current_usage = @ + 1] ELSE s : s \in subs}

\* reset_monthly_usage(): every active row whose period has ended
reset_monthly_usage ==
  {IF s.billing_period_end <= Today /\ s.status = "active"
     THEN [s EXCEPT !.current_usage = 0,
                    !.billing_period_start = s.billing_period_end,
                    !.billing_period_end = s.billing_period_end + 1]
     ELSE s : s \in subs}


(***************************************************************************)
(* The lookup of authenticateApiKey: api_keys (active) JOIN users LEFT     *)
(* JOIN the active subscription.  A missing subscription yields NULLs.     *)
(***************************************************************************)
NoSubColumns ==
  [current_usage |-> NULL, monthly_quota |-> NULL,
   rate_limit_per_minute |-> NULL, billing_period_end |-> NULL]

SubColumns(u) ==
  IF ActiveSubs(u) = {} THEN {NoSubColumns}
  ELSE {[current_usage |-> s.current_usage, monthly_quota |-> s.monthly_quota,
         rate_limit_per_minute |-> s.rate_limit_per_minute,
         billing_period_end |-> s.billing_period_end] : s \in ActiveSubs(u)}

\* the lookup without its `k.active = true' condition
AuthLookupAnyKey(keyHash) ==
  UNION {{[key_hash |-> k.key_hash, user_id |-> k.user_id, sub |-> c] :
            c \in SubColumns(k.user_id)} :
         k \in {k \in apiKeys : k.key_hash = keyHash}}

AuthLookup(keyHash) ==
  UNION {{[key_hash |-> k.key_hash, user_id |-> k.user_id, sub |-> c] :
            c \in SubColumns(k.user_id)} :
         k \in {k \in apiKeys : k.key_hash = keyHash /\ k.active = TRUE}}

(***************************************************************************)
(* A request being served.  The fields after `error' are what the client   *)
(* and the request context see; those after `pend' record, for the         *)
(* properties, what held at the moment a step ran.                         *)
(***************************************************************************)
IdleReq ==
  [kind |-> "none", pc |-> "idle", key |-> 0, uid |-> NULL, rate |-> NULL,
   plan |-> "", target |-> 0, email |-> "", apix |-> "",
   status |-> 0, error |-> "", retryAfter |-> NULL, resetDate |-> NULL,
   handlerRan |-> FALSE, rlOut |-> "none", pend |-> {},
   cntUser |-> 0, cntKey |-> 0,
   keyActive |-> FALSE, keyRevoked |-> FALSE,
   arrSubActive |-> FALSE, arrOver |-> FALSE, arrEnd |-> NULL,
   kvDown |-> FALSE, limit |-> 0, winBefore |-> 0, winCount |-> 0,
   tracked |-> FALSE, overAdmit |-> FALSE,
   nrows |-> 0, wroteSubs |-> FALSE, wroteUser |-> FALSE, okAtEnd |-> FALSE,
   event |-> "", sig |-> "", form |-> "", stale |-> FALSE,
   message |-> "", shown |-> 0, handled |-> FALSE, wroteKeys |-> FALSE,
   recorded |-> FALSE, rowsBefore |-> {}, rowsAfter |-> {},
   points |-> 0, subRate |-> 0, headers |-> {}]

\* the slots are interchangeable: a new request takes the lowest free one
Free(i) == reqs[i].pc = "idle" /\ \A j \in 1..(i - 1) : reqs[j].pc # "idle"

\* A request that is over sits at "done" with its answer until Respond
\* frees the slot.  The last statement of a handler and the writing of the
\* response run in one turn of the event loop, so nothing else runs while a
\* request is at "done".
Quiet == \A j \in Slots : reqs[j].pc # "done"

\* A step of request i leaves it as rec; a request that was answered
\* earlier ("sent") is over when nothing started for it is still running.
Step(i, rec) ==
  /\ Quiet
  /\ reqs' = [reqs EXCEPT ![i] =
        IF rec.pc = "sent" /\ rec.pend = {} THEN [rec EXCEPT !.pc = "done"]
        ELSE rec]

Respond(i) ==
  /\ reqs[i].pc = "done"
  /\ reqs' = [reqs EXCEPT ![i] = IdleReq]

KeyRowActive(keyHash) ==
  \E k \in apiKeys : k.key_hash = keyHash /\ k.active = TRUE

\* authenticateApiKey(req, res, next): the request as it leaves the
\* middleware; nextPc is where next() leads on the route
authenticateApiKey(kind, raw, nextPc) ==
  LET base == [IdleReq EXCEPT !.kind = kind, !.key = raw]
      rows == AuthLookup(hashApiKey(raw))
  IN IF raw = 0
       THEN [base EXCEPT !.pc = "done", !.status = 401,
                         !.error = "API key required"]
     ELSE IF rows = {}
       THEN [base EXCEPT !.pc = "done", !.status = 401,
                         !.error = "Invalid API key",
                         !.keyActive = KeyRowActive(hashApiKey(raw)),
                         !.keyRevoked = (hashApiKey(raw) \in revoked)]
     ELSE LET row == CHOOSE r \in rows : TRUE
          IN [base EXCEPT !.pc = nextPc,
                          !.uid = row.user_id,
                          !.rate = row.sub.rate_limit_per_minute,
                          !.keyActive = KeyRowActive(hashApiKey(raw)),
                          !.keyRevoked = (hashApiKey(raw) \in revoked),
                          !.arrSubActive = (ActiveSubs(row.user_id) # {}),
                          !.arrOver = (row.sub.current_usage # NULL /\
                                       row.sub.current_usage >= row.sub.monthly_quota),
                          !.arrEnd = row.sub.billing_period_end]

(***************************************************************************)
(* POST /api/v1/analyze/path (and the other analysis routes): the route    *)
(* is registered as authenticateApiKey, rateLimiter, validators, handler.  *)
(***************************************************************************)
RequestMetered(i, raw) ==
  /\ Free(i)
  /\ Step(i, authenticateApiKey("metered", raw, "rate"))
  /\ UNCHANGED <<svcVars, dbVars, now, kvUp, rlVars, histVars>>

(***************************************************************************)
(* LRUCache and getLimiter.  The table is a sequence in the Map's          *)
(* insertion order; an entry holds the limiter's configuration: its        *)
(* points and the store client it was constructed with.                    *)
(***************************************************************************)
LruIndex(cache, key) ==
  IF \E n \in 1..Len(cache) : cache[n].key = key
    THEN CHOOSE n \in 1..Len(cache) : cache[n].key = key
    ELSE 0

RemoveAt(s, n) == SubSeq(s, 1, n - 1) \o SubSeq(s, n + 1, Len(s))

\* LRUCache.get: [cache, hit, value]
LruGet(cache, key) ==
  LET n == LruIndex(cache, key)
  IN IF n = 0 THEN [cache |-> cache, hit |-> FALSE, value |-> NULL]
     ELSE IF now - cache[n].lastUsed > LimiterTtl
       THEN [cache |-> RemoveAt(cache, n), hit |-> FALSE, value |-> NULL]
     ELSE [cache |-> [cache EXCEPT ![n].lastUsed = now], hit |-> TRUE,
           value |-> cache[n].value]

\* LRUCache.findOldest: the first entry with the smallest lastUsed
findOldest(cache) ==
  CHOOSE n \in 1..Len(cache) :
    /\ \A m \in 1..Len(cache) : cache[n].lastUsed <= cache[m].lastUsed
    /\ \A m \in 1..(n - 1) : cache[m].lastUsed > cache[n].lastUsed

\* a set that evicts nothing
LruSetKeepingAll(cache, key, value, maxSize) ==
  LET n == LruIndex(cache, key)
      entry == [key |-> key, value |-> value, lastUsed |-> now]
  IN IF n = 0 THEN Append(cache, entry) ELSE [cache EXCEPT ![n] = entry]

\* LRUCache.set of a table of capacity maxSize
LruSetAt(cache, key, value, maxSize) ==
  LET kept == IF Len(cache) >= maxSize
                THEN RemoveAt(cache, findOldest(cache)) ELSE cache
      n == LruIndex(kept, key)
      entry == [key |-> key, value |-> value, lastUsed |-> now]
  IN IF n = 0 THEN Append(kept, entry) ELSE [kept EXCEPT ![n] = entry]

\* LRUCache.set of the limiters
LruSet(cache, key, value) == LruSetAt(cache, key, value, LimiterMaxSize)

\* redis.getClient(): the client, or null while the store is not connected
getClient == IF kvUp THEN "redis" ELSE "null"

\* getLimiter(keyHash, points): [cache, limiter]; a cached limiter is
\* returned as it was constructed
getLimiter(keyHash, points) ==
  LET g == LruGet(limiters, keyHash)
  IN IF g.hit THEN [cache |-> g.cache, limiter |-> g.value]
     ELSE LET limiter == [points |-> points, client |-> getClient]
          IN [cache |-> LruSet(g.cache, keyHash, limiter), limiter |-> limiter]

(***************************************************************************)
(* limiter.consume(key): one atomic increment in the store.  The key       *)
(* lives `Duration' seconds from its first increment; the increment that   *)
(* first exceeds the points restarts it for `BlockDuration'.  A null       *)
(* points option counts as 0 in the comparisons.                           *)
(***************************************************************************)
ConsumedCap == EnterpriseRate + 2

PointsOf(limiter) == IF limiter.points = NULL THEN 0 ELSE limiter.points

\* the per-minute limit of u's active subscription, 0 when there is none
RateOf(u) ==
  IF ActiveSubs(u) = {} THEN 0
  ELSE (CHOOSE s \in ActiveSubs(u) : TRUE).rate_limit_per_minute

Consume(limiter, keyHash) ==
  LET e == rl[keyHash]
      live == now < e.expireAt
      c == IF live THEN Min(e.consumed + 1, ConsumedCap) ELSE 1
      x0 == IF live THEN e.expireAt ELSE now + Duration
      over == c > PointsOf(limiter)
      x == IF over /\ BlockDuration > 0 /\ c <= PointsOf(limiter) + 1
             THEN now + BlockDuration ELSE x0
  IN [entry |-> [consumed |-> c, expireAt |-> x], over |-> over,
      msBeforeNext |-> (x - now) * 1000]

\* Math.ceil(ms / 1000)
CeilSeconds(ms) == (ms + 999) \div 1000

AdmitCap == EnterpriseRate + 2

PushTime(s, t) ==
  IF Len(s) >= AdmitCap THEN Append(Tail(s), t) ELSE Append(s, t)

(***************************************************************************)
(* rateLimiter(req, res, next) for a request with apiKeyData.              *)
(*  - the store cannot be used (the limiter was built with a null client,  *)
(*    or the store is down): consume fails with an error that carries no   *)
(*    msBeforeNext, the catch block computes an invalid date and throws;   *)
(*    a limiter built with a null client stays in the table or not,        *)
(*    depending on whether the library's constructor accepts the client;   *)
(*  - apiKeyData.rate_limit_per_minute is null (no active subscription):   *)
(*    the header lines call toString on null and throw, after consume;     *)
(*  - otherwise next() or 429.                                             *)
(* A throw rejects the promise of the middleware: the request gets no      *)
(* answer (status 0), or the 500 of the error middleware where the         *)
(* framework forwards rejections to it.                                    *)
(***************************************************************************)
Unhandled == {0, 500}

\* the response headers about usage
RateLimitHeaders ==
  {"X-RateLimit-Limit", "X-RateLimit-Remaining", "X-RateLimit-Reset"}
QuotaHeaders == {"X-Quota-Limit", "X-Quota-Remaining", "X-Quota-Reset"}

\* res.setHeader for each of names: once the response has been sent it
\* throws and the headers of the response stay as they were
setHeaders(r, names) ==
  IF r.pc \in {"sent", "done"} THEN r ELSE [r EXCEPT !.headers = @ \cup names]

rateLimiter(i) ==
  LET r == reqs[i]
      h == hashApiKey(r.key)
      g == getLimiter(h, r.rate)
      usable == g.limiter.client = "redis" /\ kvUp
      c == Consume(g.limiter, h)
      before == SeqCount(admits[h], now - Duration)
      seen == [r EXCEPT !.kvDown = ~kvUp, !.winBefore = before,
                        !.limit = Max(PointsOf([points |-> r.rate]), RateOf(r.uid)),
                        !.points = PointsOf(g.limiter),
                        !.subRate = RateOf(r.uid)]
  IN /\ r.pc = "rate"
     /\ \E kept \in BOOLEAN :
          limiters' = IF kept \/ g.limiter.client = "redis" THEN g.cache
                      ELSE LruGet(limiters, h).cache
     /\ IF ~usable
          THEN /\ \E st \in Unhandled :
                    Step(i,
                      [seen EXCEPT !.pc = "done", !.rlOut = "crashed",
                                   !.status = st, !.error = "unhandled"])
               /\ UNCHANGED <<rl, admits>>
        ELSE IF r.rate = NULL
          THEN /\ rl' = [rl EXCEPT ![h] = c.entry]
               /\ \E st \in Unhandled :
                    Step(i,
                      [seen EXCEPT !.pc = "done", !.rlOut = "crashed",
                                   !.status = st, !.error = "unhandled"])
               /\ UNCHANGED admits
        ELSE IF c.over
          THEN /\ rl' = [rl EXCEPT ![h] = c.entry]
               /\ Step(i,
                     [setHeaders(seen, {"Retry-After"} \cup RateLimitHeaders)
                        EXCEPT !.pc = "done", !.rlOut = "rejected",
                                  !.status = 429,
                                  !.error = "Rate limit exceeded",
                                  !.retryAfter = CeilSeconds(c.msBeforeNext)])
               /\ UNCHANGED admits
        ELSE /\ rl' = [rl EXCEPT ![h] = c.entry]
             /\ admits' = [admits EXCEPT ![h] = PushTime(@, now)]
             /\ Step(i,
                   [setHeaders(seen, RateLimitHeaders)
                      EXCEPT !.pc = "handler", !.rlOut = "admitted",
                                !.winCount = before + 1])
     /\ UNCHANGED <<svcVars, dbVars, now, kvUp, admitted, revoked>>

(***************************************************************************)
(* The endpoint handler of a metered route.  It answers the request, so    *)
(* no middleware registered after the routes runs for it.                  *)
(***************************************************************************)
QuotaOf(u) ==
  IF ActiveSubs(u) = {} THEN 0
  ELSE (CHOOSE s \in ActiveSubs(u) : TRUE).monthly_quota

CountCap == EnterpriseQuota + 2

analyzePath(i) ==
  LET r == reqs[i]
  IN /\ r.pc = "handler"
     /\ Step(i,
           [r EXCEPT !.pc = "done", !.status = 200, !.handlerRan = TRUE])
     /\ UNCHANGED <<svcVars, dbVars, now, kvUp, rlVars, histVars>>


(***************************************************************************)
(* Any other path under /api/v1: no route answers it, so it reaches the    *)
(* middleware registered after the routes: authenticateApiKey,             *)
(* usageTrackingMiddleware, addUsageHeaders, and then the 404 of the       *)
(* framework.                                                              *)
(***************************************************************************)
RequestUnrouted(i, raw) ==
  /\ Free(i)
  /\ Step(i, authenticateApiKey("unrouted", raw, "quota"))
  /\ UNCHANGED <<svcVars, dbVars, now, kvUp, rlVars, histVars>>

\* trackUsageAndEnforceQuota, step 1: isUserOverQuota and, when over, the
\* read of the subscription for the 429 body
trackQuota(i) ==
  LET r == reqs[i]
      sub == IF ActiveSubs(r.uid) = {} THEN NoSubColumns
             ELSE CHOOSE c \in SubColumns(r.uid) : TRUE
  IN /\ r.pc = "quota"
     /\ Step(i,
           IF is_over_quota(r.uid)
             THEN [r EXCEPT !.pc = "done", !.status = 429,
                            !.error = "Quota exceeded",
                            !.resetDate = sub.billing_period_end]
             ELSE [r EXCEPT !.pc = "ratecheck"])
     /\ UNCHANGED <<svcVars, dbVars, now, kvUp, rlVars, histVars>>

\* checkRateLimit(userId): the calls logged for the user in the last minute
checkRateLimit(u) ==
  IF ActiveSubs(u) = {} THEN FALSE
  ELSE SeqCount(logs[u], now - Duration) <
         (CHOOSE s \in ActiveSubs(u) : TRUE).rate_limit_per_minute

\* trackUsageAndEnforceQuota, steps 2 to 5: the rate check; then the two
\* increments are started without being awaited, next() runs the rest of
\* the chain (addUsageHeaders, which starts its query and calls next(), and
\* the 404 of the framework), and the call is logged once the response has
\* been sent
trackRate(i) ==
  LET r == reqs[i]
      n == Min(admitted[r.uid] + 1, CountCap)
  IN /\ r.pc = "ratecheck"
     /\ IF checkRateLimit(r.uid)
          THEN /\ Step(i,
                     [r EXCEPT !.pc = "sent", !.status = 404,
                               !.pend = {"incUser", "incKey", "log", "headers"},
                               !.tracked = TRUE,
                               !.overAdmit = (n > QuotaOf(r.uid))])
               /\ admitted' = [admitted EXCEPT ![r.uid] = n]
          ELSE /\ Step(i,
                     [r EXCEPT !.pc = "done", !.status = 429,
                               !.error = "Rate limit exceeded",
                               !.retryAfter = 60])
               /\ UNCHANGED admitted
     /\ UNCHANGED <<svcVars, dbVars, now, kvUp, rlVars, admits, revoked>>

\* addUsageHeaders(req, res, next): the callback of its query, which sets
\* the six headers when the user has an active subscription
addUsageHeaders(i) ==
  LET r == reqs[i]
      found == [r EXCEPT !.pend = @ \ {"headers"}]
  IN /\ "headers" \in r.pend
     /\ Step(i,
           IF ActiveSubs(r.uid) # {}
             THEN setHeaders(found, RateLimitHeaders \cup QuotaHeaders)
             ELSE found)
     /\ UNCHANGED <<svcVars, dbVars, now, kvUp, rlVars, histVars>>

\* incrementUserUsage(userId), run in the background
incrementUserUsage(i) ==
  LET r == reqs[i]
  IN /\ "incUser" \in r.pend
     /\ subs' = increment_user_usage(r.uid)
     /\ Step(i,
           [r EXCEPT !.pend = @ \ {"incUser"},
                     !.cntUser = Cardinality(ActiveSubs(r.uid))])
     /\ UNCHANGED <<svcVars, events, users, apiKeys, logs, now, kvUp, rlVars, histVars>>

\* incrementKeyUsage(keyHash), run in the background
incrementKeyUsage(i) ==
  LET r == reqs[i]
      h == hashApiKey(r.key)
  IN /\ "incKey" \in r.pend
     /\ apiKeys' = {IF k.key_hash = h
                      THEN [k EXCEPT !.total_calls = @ + 1] ELSE k : k \in apiKeys}
     /\ Step(i,
           [r EXCEPT !.pend = @ \ {"incKey"},
                     !.cntKey = Cardinality({k \in apiKeys : k.key_hash = h})])
     /\ UNCHANGED <<svcVars, events, users, subs, logs, now, kvUp, rlVars, histVars>>

\* logApiCall: the row of api_usage_logs; only its user and time are kept
logApiCall(i) ==
  LET r == reqs[i]
  IN /\ "log" \in r.pend
     /\ logs' = [logs EXCEPT ![r.uid] = PushTime(@, now)]
     /\ Step(i, [r EXCEPT !.pend = @ \ {"log"}])
     /\ UNCHANGED <<svcVars, events, users, subs, apiKeys, now, kvUp, rlVars, histVars>>


(***************************************************************************)
(* Rows created within the bounds: a request that is going to insert a     *)
(* user or a key is accepted only while an unused id is left for it.       *)
(***************************************************************************)
Creating ==
  {i \in Slots : \/ reqs[i].pc = "create"
                 \/ reqs[i].pc = "wh_recv" /\ reqs[i].event = "user.subscribed"}
KeyMaking == Creating \cup {i \in Slots : reqs[i].pc = "newkey"}
UserIdLeft == Cardinality(users) + Cardinality(Creating) < MaxUsers
KeyIdLeft == Cardinality(apiKeys) + Cardinality(KeyMaking) < MaxKeys

\* gen_random_uuid() / generateApiKey(): an id nobody has
FreshUserId == SetMin(UserIds \ {u.id : u \in users})
FreshKeyId == SetMin(KeyIds \ {k.id : k \in apiKeys})

\* generateApiKey(): 'tfa_live_' and 64 hex digits; the raw key of row n
\* is the number n
generateApiKey == FreshKeyId

\* apiKey.substring(0, 16): the part of a raw key that may be displayed
keyPrefix(raw) == PrefixBase + raw

\* createApiKey that stores the key as it is
NewKeyRowPlain(u) ==
  [id |-> FreshKeyId, key_hash |-> generateApiKey,
   key_prefix |-> keyPrefix(generateApiKey), user_id |-> u,
   active |-> TRUE, total_calls |-> 0, revoked_at |-> NULL]

\* createApiKey(userId): the inserted row
NewKeyRow(u) ==
  [id |-> FreshKeyId, key_hash |-> hashApiKey(generateApiKey),
   key_prefix |-> keyPrefix(generateApiKey), user_id |-> u,
   active |-> TRUE, total_calls |-> 0, revoked_at |-> NULL]

(***************************************************************************)
(* createUser(params): one transaction inserting the user, its             *)
(* subscription and its first key.  The unique constraints on users.email, *)
(* users.apix_user_id and idx_subscriptions_user_active abort it.          *)
(***************************************************************************)
NewSubRow(u, plan) ==
  [id |-> u, user_id |-> u, plan |-> plan,
   monthly_quota |-> PlanLimits(plan).monthly_quota,
   rate_limit_per_minute |-> PlanLimits(plan).rate_limit_per_minute,
   current_usage |-> 0,
   billing_period_start |-> Today, billing_period_end |-> Today + 1,
   status |-> "active"]

\* what createUser returns or throws: ok, the new user's id and raw key,
\* the message of the error thrown, and the tables it leaves
Thrown(message) ==
  [ok |-> FALSE, uid |-> NULL, key |-> 0, error |-> message,
   users |-> users, subs |-> subs, apiKeys |-> apiKeys]

Created(u, email, apix, plan) ==
  [ok |-> TRUE, uid |-> u, key |-> generateApiKey, error |-> "",
   users |-> users \cup {[id |-> u, email |-> email, plan |-> plan,
                          status |-> "active", apix_user_id |-> apix]},
   subs |-> subs \cup {NewSubRow(u, plan)},
   apiKeys |-> apiKeys \cup {NewKeyRow(u)}]

\* createUser that, on a known email, reuses the user row and gives it a
\* further subscription, with no unique index on the active row
createUserReusing(email, apix, plan) ==
  IF plan \notin PlanNames THEN Thrown("Plan not found")
  ELSE IF getUserByEmail(email) # {}
    THEN LET u == (CHOOSE r \in getUserByEmail(email) : TRUE).id
         IN [ok |-> TRUE, uid |-> u, key |-> generateApiKey, error |-> "",
             users |-> users,
             subs |-> subs \cup {[NewSubRow(u, plan) EXCEPT !.id = MaxUsers + u]},
             apiKeys |-> apiKeys \cup {NewKeyRow(u)}]
  ELSE Created(FreshUserId, email, apix, plan)

\* createUser with no unique constraint on users.apix_user_id
createUserAnyApix(email, apix, plan) ==
  IF plan \notin PlanNames THEN Thrown("Plan not found")
  ELSE IF getUserByEmail(email) # {} THEN Thrown("duplicate key")
  ELSE Created(FreshUserId, email, apix, plan)

createUser(email, apix, plan) ==
  IF plan \notin PlanNames THEN Thrown("Plan not found")
  ELSE IF getUserByEmail(email) # {} THEN Thrown("duplicate key")
  ELSE IF apix # "" /\ getUserByApixId(apix) # {} THEN Thrown("duplicate key")
  ELSE IF ActiveSubs(FreshUserId) # {} THEN Thrown("duplicate key")
  ELSE Created(FreshUserId, email, apix, plan)

(***************************************************************************)
(* A statement of the transaction may fail for a reason of the database    *)
(* (a lost connection, a refused statement): FailurePoints names the       *)
(* statement that throws, "none" when all succeed.  c is what the          *)
(* transaction has done when it throws.                                    *)
(***************************************************************************)
FailurePoints == {"none", "subscriptions", "api_keys", "commit"}

\* a catch that rethrows without ROLLBACK, on a connection that keeps what
\* was inserted before the failing statement
rethrowOnly(c, at) ==
  [ok |-> FALSE, uid |-> NULL, key |-> 0, error |-> "connection lost",
   users |-> c.users,
   subs |-> IF at = "subscriptions" THEN subs ELSE c.subs,
   apiKeys |-> IF at = "commit" THEN c.apiKeys ELSE apiKeys]

\* createApiKey inserts with db.query, not with the client that holds the
\* transaction: the pool's query runs in the transaction that is open
\* (the "transactional section for user + subscription + key creation")
queryJoinsTransaction == TRUE

\* catch (error) { await client.query('ROLLBACK'); throw error; }: what was
\* written in the transaction is undone
rollback(c, at) ==
  [ok |-> FALSE, uid |-> NULL, key |-> 0, error |-> "connection lost",
   users |-> users, subs |-> subs,
   apiKeys |-> IF queryJoinsTransaction \/ at # "commit" THEN apiKeys
               ELSE c.apiKeys]

\* POST /api/v1/users/register: registerUser up to the call of createUser
RequestRegister(i, email, plan) ==
  /\ Free(i)
  /\ UserIdLeft /\ KeyIdLeft
  /\ Step(i,
        IF getUserByEmail(email) # {}
          THEN [IdleReq EXCEPT !.kind = "register", !.pc = "done",
                               !.status = 409, !.error = "User already exists"]
          ELSE [IdleReq EXCEPT !.kind = "register", !.pc = "create",
                               !.email = email, !.plan = plan])
  /\ UNCHANGED <<svcVars, dbVars, now, kvUp, rlVars, histVars>>

\* user.subscribed: handleUserSubscribed up to the call of createUser
WebhookSubscribed(i) ==
  LET r == reqs[i]
  IN /\ r.pc = "wh_recv"
     /\ r.event = "user.subscribed"
     /\ Step(i,
           IF getUserByApixId(r.apix) # {}
             THEN [r EXCEPT !.pc = "done", !.status = 200,
                            !.error = "User already exists",
                            !.uid = (CHOOSE u \in getUserByApixId(r.apix) : TRUE).id]
             ELSE [r EXCEPT !.pc = "create"])
     /\ UNCHANGED <<svcVars, dbVars, now, kvUp, rlVars, histVars>>

\* the createUser call of either caller.  registerUser answers 201 with
\* the raw key, or 500 from its catch; handleUserSubscribed goes on to mark
\* the event processed, and what createUser throws reaches the catch of
\* handleApixWebhook.
CreateUserStep(i) ==
  LET r == reqs[i]
      t == createUser(r.email, r.apix, r.plan)
  IN /\ r.pc = "create"
     /\ \E at \in FailurePoints :
          LET c == IF t.ok /\ at # "none" THEN rollback(t, at) ELSE t
          IN /\ users' = c.users
             /\ subs' = c.subs
             /\ apiKeys' = c.apiKeys
             /\ Step(i,
                   LET w == [r EXCEPT !.wroteUser = (c.users # users),
                                      !.wroteSubs = (c.subs # subs),
                                      !.wroteKeys = (c.apiKeys # apiKeys)]
                   IN IF r.kind = "register"
                        THEN IF c.ok
                               THEN [w EXCEPT !.pc = "done", !.status = 201,
                                              !.uid = c.uid, !.shown = c.key]
                               ELSE [w EXCEPT !.pc = "done", !.status = 500,
                                              !.error = "Registration failed",
                                              !.message = c.error]
                      ELSE IF c.ok
                        THEN [w EXCEPT !.pc = "wh_mark", !.uid = c.uid,
                                       !.target = c.key, !.handled = TRUE]
                      ELSE [w EXCEPT !.pc = "wh_failed", !.message = c.error])
     /\ UNCHANGED <<svcVars, events, logs, now, kvUp, rlVars, histVars>>

(***************************************************************************)
(* POST /webhooks/apix: verifyWebhookSignature, then handleApixWebhook.    *)
(*                                                                         *)
(* A delivery is the text of a JSON document and the x-webhook-signature   *)
(* header.  express.json() parses the text before the route runs, and the  *)
(* route sees the parsed document only; JSON.stringify writes a document   *)
(* in the compact layout, whatever the layout of the text received.        *)
(***************************************************************************)
WebhookSecret == "whsec"

EventTypes ==
  {"user.subscribed", "user.plan_changed", "user.cancelled", "user.renewed"}
\* an event type the switch of handleApixWebhook has no case for
UnknownEvents == {"user.deleted"}
AllEvents == EventTypes \cup UnknownEvents

\* the layouts a sender may give the text of the same document
Layouts == {"compact", "spaced"}

\* how the sender made the header: none, the digest of the text it sends,
\* the digest of the compact text of the document, a digest made without
\* the secret, a digest cut short
Signatures == {"none", "raw", "canonical", "forged", "short"}

\* the document of an event: email and plan belong to the events that
\* carry them; stale says that its timestamp is more than five minutes old
Document(ev, apix, email, plan, stale) ==
  [event |-> ev, apixUserId |-> apix,
   email |-> IF ev = "user.subscribed" THEN email ELSE "",
   plan |-> IF ev \in {"user.subscribed", "user.plan_changed"} THEN plan ELSE "",
   stale |-> stale]

BodyText(doc, layout) == [doc |-> doc, layout |-> layout]

\* express.json()
parseJson(text) == text.doc

\* JSON.stringify(req.body)
stringify(doc) == [doc |-> doc, layout |-> "compact"]

\* crypto.createHmac('sha256', secret).update(text).digest('hex'): HexLen
\* characters, equal for equal secret and text only
hmacHex(secret, text) == [len |-> HexLen, mac |-> <<secret, text>>]

NoHeader == [len |-> 0, mac |-> <<>>]

SignatureHeader(how, text) ==
  CASE how = "none" -> NoHeader
    [] how = "raw" -> hmacHex(WebhookSecret, text)
    [] how = "canonical" -> hmacHex(WebhookSecret, stringify(parseJson(text)))
    [] how = "forged" -> hmacHex("guess", text)
    [] how = "short" -> [len |-> HexLen - 1, mac |-> <<"guess", text>>]

\* crypto.timingSafeEqual(a, b): throws when the lengths differ
timingSafeEqual(a, b) ==
  IF a.len # b.len THEN "throws" ELSE IF a = b THEN "equal" ELSE "different"

\* verifyWebhookSignature(req, res, next): the response it writes, status 0
\* when it calls next()
verifyWebhookSignature(secret, signature, body) ==
  IF secret = ""
    THEN [status |-> 500, error |-> "Webhook configuration error"]
  ELSE IF signature = NoHeader
    THEN [status |-> 401, error |-> "Missing webhook signature"]
  ELSE LET isValid == timingSafeEqual(signature, hmacHex(secret, stringify(body)))
       IN IF isValid = "throws"
            THEN [status |-> 500, error |-> "Signature verification failed"]
          ELSE IF isValid = "different"
            THEN [status |-> 401, error |-> "Invalid webhook signature"]
          ELSE [status |-> 0, error |-> ""]

\* the webhook_events row of a delivery (processed DEFAULT false)
EventRow(doc) ==
  [event_type |-> doc.event, payload |-> doc.apixUserId,
   processed |-> FALSE, error_message |-> ""]

WebhookKind(ev) ==
  CASE ev = "user.subscribed" -> "wh_subscribed"
    [] ev = "user.plan_changed" -> "wh_plan_changed"
    [] ev = "user.cancelled" -> "wh_cancelled"
    [] ev = "user.renewed" -> "wh_renewed"
    [] OTHER -> "wh_unknown"

\* A delivery arrives: the signature is verified and, when it passes,
\* handleApixWebhook runs up to its first await, the INSERT into
\* webhook_events.
WebhookDelivery(i, ev, apix, email, plan, stale, how, layout) ==
  LET doc == Document(ev, apix, email, plan, stale)
      text == BodyText(doc, layout)
      v == verifyWebhookSignature(WebhookSecret, SignatureHeader(how, text),
                                  parseJson(text))
      base == [IdleReq EXCEPT !.kind = WebhookKind(ev), !.event = ev,
                              !.apix = apix, !.email = doc.email,
                              !.plan = doc.plan, !.stale = stale,
                              !.sig = how, !.form = layout]
  IN /\ Free(i)
     /\ ev = "user.subscribed" => UserIdLeft /\ KeyIdLeft
     \* on a compact text the two digests are the same header
     /\ how = "canonical" => layout = "spaced"
     /\ IF v.status # 0
          THEN /\ Step(i, [base EXCEPT !.pc = "done", !.status = v.status,
                                       !.error = v.error])
               /\ UNCHANGED events
          ELSE /\ events' = events \cup {EventRow(doc)}
               /\ Step(i, [base EXCEPT !.pc = "wh_recv", !.recorded = TRUE])
     /\ UNCHANGED <<svcVars, users, subs, apiKeys, logs, now, kvUp, rlVars, histVars>>

\* the default case of the switch
WebhookUnknown(i) ==
  LET r == reqs[i]
  IN /\ r.pc = "wh_recv"
     /\ r.event \notin EventTypes
     /\ Step(i, [r EXCEPT !.pc = "done", !.status = 200])
     /\ UNCHANGED <<svcVars, dbVars, now, kvUp, rlVars, histVars>>

(***************************************************************************)
(* The statements that are to set processed and error_message:             *)
(*   UPDATE webhook_events SET ... WHERE ... ORDER BY received_at DESC     *)
(*   LIMIT 1                                                               *)
(* UPDATE has no ORDER BY and no LIMIT clause in PostgreSQL: the server    *)
(* refuses the statement and the query rejects.  Each operator gives the   *)
(* outcome of its statement and the table after it.                        *)
(***************************************************************************)
markProcessed(ev, apix) ==
  [ok |-> FALSE, error |-> "syntax error", events |-> events]

markError(message, apix) ==
  [ok |-> FALSE, error |-> "syntax error", events |-> events]

\* a webhook response that carries the raw key of the account it made
webhookKeyShownRaw(status, key) == key

\* what a webhook response carries of the key that handleUserSubscribed
\* made: apiKey.keyPrefix in the 201, nothing in the 500 of the catch
webhookKeyShown(status, key) ==
  IF status = 201 THEN keyPrefix(key) ELSE 0

\* the last statement of the four handlers, and the response that follows
\* it when it succeeds
WebhookMarkProcessed(i) ==
  LET r == reqs[i]
      m == markProcessed(r.event, r.apix)
  IN /\ r.pc = "wh_mark"
     /\ events' = m.events
     /\ Step(i,
           IF ~m.ok THEN [r EXCEPT !.pc = "wh_failed", !.message = m.error]
           ELSE [r EXCEPT !.pc = "done",
                          !.status = IF r.event = "user.subscribed" THEN 201 ELSE 200,
                          !.shown = IF r.event = "user.subscribed"
                                      THEN webhookKeyShown(201, r.target)
                                      ELSE 0])
     /\ UNCHANGED <<svcVars, users, subs, apiKeys, logs, now, kvUp, rlVars, histVars>>

\* the catch of handleApixWebhook: the statement that is to record the
\* error (its own failure is swallowed), then the 500
WebhookFailed(i) ==
  LET r == reqs[i]
      m == markError(r.message, r.apix)
  IN /\ r.pc = "wh_failed"
     /\ events' = m.events
     /\ Step(i, [r EXCEPT !.pc = "done", !.status = 500,
                          !.error = "Webhook processing failed",
                          !.shown = IF r.event = "user.subscribed"
                                      THEN webhookKeyShown(500, r.target)
                                      ELSE 0])
     /\ UNCHANGED <<svcVars, users, subs, apiKeys, logs, now, kvUp, rlVars, histVars>>

(***************************************************************************)
(* Keys: POST /api/v1/users/keys and DELETE /api/v1/users/keys/:keyId.     *)
(***************************************************************************)
RequestNewKey(i, raw) ==
  /\ Free(i)
  /\ KeyIdLeft
  /\ Step(i, authenticateApiKey("newkey", raw, "newkey"))
  /\ UNCHANGED <<svcVars, dbVars, now, kvUp, rlVars, histVars>>

generateNewApiKey(i) ==
  LET r == reqs[i]
  IN /\ r.pc = "newkey"
     /\ apiKeys' = apiKeys \cup {NewKeyRow(r.uid)}
     /\ Step(i,
           [r EXCEPT !.pc = "done", !.status = 201, !.target = FreshKeyId,
                     !.shown = generateApiKey])
     /\ UNCHANGED <<svcVars, events, users, subs, logs, now, kvUp, rlVars, histVars>>

RequestRevoke(i, raw, keyId) ==
  /\ Free(i)
  /\ Step(i,
        [authenticateApiKey("revoke", raw, "revoke") EXCEPT !.target = keyId])
  /\ UNCHANGED <<svcVars, dbVars, now, kvUp, rlVars, histVars>>

\* the UPDATE without its `user_id = $2' condition
revokeApiKeyAnyOwner(keyId, u) ==
  [rowCount |-> Cardinality({k \in apiKeys : k.id = keyId}),
   apiKeys |-> {IF k.id = keyId
                  THEN [k EXCEPT !.active = FALSE, !.revoked_at = now]
                  ELSE k : k \in apiKeys}]

\* revokeApiKey(keyId, userId): UPDATE api_keys SET active = false,
\* revoked_at = NOW() WHERE id = $1 AND user_id = $2; the number of rows
\* it matched and the table after it
revokeApiKey(keyId, u) ==
  [rowCount |-> Cardinality({k \in apiKeys : k.id = keyId /\ k.user_id = u}),
   apiKeys |-> {IF k.id = keyId /\ k.user_id = u
                  THEN [k EXCEPT !.active = FALSE, !.revoked_at = now]
                  ELSE k : k \in apiKeys}]

\* deleteApiKey(req, res); rowsBefore and rowsAfter are the rows with the
\* id of the request before and after the statement
deleteApiKey(i) ==
  LET r == reqs[i]
      u == revokeApiKey(r.target, r.uid)
      rec == [r EXCEPT !.pc = "done",
                       !.rowsBefore = {k \in apiKeys : k.id = r.target},
                       !.rowsAfter = {k \in u.apiKeys : k.id = r.target}]
  IN /\ r.pc = "revoke"
     /\ apiKeys' = u.apiKeys
     /\ revoked' = revoked \cup
                     {k.key_hash : k \in {k \in rec.rowsAfter : ~k.active}}
     /\ Step(i,
           IF u.rowCount > 0 THEN [rec EXCEPT !.status = 200]
           ELSE [rec EXCEPT !.status = 404, !.error = "API key not found"])
     /\ UNCHANGED <<svcVars, events, users, subs, logs, now, kvUp, rlVars, admitted, admits>>


(***************************************************************************)
(* Cancellation: POST /api/v1/users/cancel and user.cancelled both call    *)
(* cancelUserSubscription, two statements with an await between them.      *)
(***************************************************************************)
RequestCancel(i, raw) ==
  /\ Free(i)
  /\ Step(i, authenticateApiKey("cancel", raw, "cancel_subs"))
  /\ UNCHANGED <<svcVars, dbVars, now, kvUp, rlVars, histVars>>

\* the lookup by apixUserId that starts the plan_changed, cancelled and
\* renewed handlers
WebhookLookup(r, nextPc) ==
  IF getUserByApixId(r.apix) = {}
    THEN [r EXCEPT !.pc = "done", !.status = 404, !.error = "User not found"]
    ELSE [r EXCEPT !.pc = nextPc,
                   !.uid = (CHOOSE u \in getUserByApixId(r.apix) : TRUE).id]

WebhookCancelled(i) ==
  /\ reqs[i].pc = "wh_recv"
  /\ reqs[i].event = "user.cancelled"
  /\ Step(i, WebhookLookup(reqs[i], "cancel_subs"))
  /\ UNCHANGED <<svcVars, dbVars, now, kvUp, rlVars, histVars>>

\* cancelUserSubscription, first statement
cancelSubscriptionRows(i) ==
  LET r == reqs[i]
  IN /\ r.pc = "cancel_subs"
     /\ subs' = {IF s.user_id = r.uid /\ s.status = "active"
                   THEN [s EXCEPT !.status = "cancelled"] ELSE s : s \in subs}
     /\ Step(i, [r EXCEPT !.pc = "cancel_user",
                                               !.wroteSubs = TRUE])
     /\ UNCHANGED <<svcVars, events, users, apiKeys, logs, now, kvUp, rlVars, histVars>>

\* cancelUserSubscription, second statement; cancelSubscription answers,
\* handleUserCancelled goes on to mark the event processed
cancelUserRow(i) ==
  LET r == reqs[i]
  IN /\ r.pc = "cancel_user"
     /\ users' = {IF u.id = r.uid THEN [u EXCEPT !.status = "cancelled"] ELSE u :
                    u \in users}
     /\ Step(i,
           IF r.kind = "wh_cancelled"
             THEN [r EXCEPT !.pc = "wh_mark", !.wroteUser = TRUE,
                            !.handled = TRUE]
             ELSE [r EXCEPT !.pc = "done", !.status = 200, !.wroteUser = TRUE])
     /\ UNCHANGED <<svcVars, events, subs, apiKeys, logs, now, kvUp, rlVars, histVars>>

(***************************************************************************)
(* Plan change: POST /api/v1/users/plan (updatePlan validates the plan     *)
(* name) and user.plan_changed (handlePlanChanged does not) both call      *)
(* updateUserPlan.                                                         *)
(***************************************************************************)
RequestPlan(i, raw, plan) ==
  LET a == authenticateApiKey("plan", raw, "plan_subs")
  IN /\ Free(i)
     /\ Step(i,
           IF a.pc = "done" THEN a
           ELSE IF plan \notin {"starter", "pro", "enterprise"}
             THEN [a EXCEPT !.pc = "done", !.status = 400, !.plan = plan,
                            !.error = "Invalid plan"]
           ELSE [a EXCEPT !.plan = plan])
     /\ UNCHANGED <<svcVars, dbVars, now, kvUp, rlVars, histVars>>

WebhookPlanChanged(i) ==
  /\ reqs[i].pc = "wh_recv"
  /\ reqs[i].event = "user.plan_changed"
  /\ Step(i, WebhookLookup(reqs[i], "plan_subs"))
  /\ UNCHANGED <<svcVars, dbVars, now, kvUp, rlVars, histVars>>

\* the key hashes of user u
KeysOf(u) == {k.key_hash : k \in {k \in apiKeys : k.user_id = u}}

\* updateUserPlan: the plan lookup and the UPDATE of subscriptions.  The
\* record of admissions (admits) starts afresh for the user's keys: it
\* counts the requests admitted under the limit now in force.
updatePlanSubscription(i) ==
  LET r == reqs[i]
      hit == ActiveSubs(r.uid)
  IN /\ r.pc = "plan_subs"
     /\ IF r.plan \notin PlanNames
          THEN /\ Step(i,
                     IF r.kind = "wh_plan_changed"
                       THEN [r EXCEPT !.pc = "wh_failed",
                                      !.message = "Plan not found"]
                       ELSE [r EXCEPT !.pc = "done", !.status = 500,
                                      !.error = "Failed to update plan"])
               /\ UNCHANGED <<subs, admits>>
          ELSE /\ admits' = [h \in DOMAIN admits |->
                               IF hit # {} /\ h \in KeysOf(r.uid) THEN <<>>
                               ELSE admits[h]]
               /\ subs' = {IF s \in hit
                             THEN [s EXCEPT
                                     !.plan = r.plan,
                                     !.monthly_quota = PlanLimits(r.plan).monthly_quota,
                                     !.rate_limit_per_minute =
                                        PlanLimits(r.plan).rate_limit_per_minute]
                             ELSE s : s \in subs}
               /\ Step(i,
                     [r EXCEPT !.pc = "plan_user", !.nrows = Cardinality(hit),
                               !.wroteSubs = (subs' # subs)])
     /\ UNCHANGED <<svcVars, events, users, apiKeys, logs, now, kvUp, rlVars, admitted, revoked>>

\* what a plan change has to leave behind, in the tables us and sb
PlanApplied(us, sb, u, plan) ==
  /\ \E s \in sb :
       /\ s.user_id = u /\ s.status = "active"
       /\ s.plan = plan
       /\ s.monthly_quota = PlanLimits(plan).monthly_quota
       /\ s.rate_limit_per_minute = PlanLimits(plan).rate_limit_per_minute
  /\ \A x \in us : x.id = u => x.plan = plan

\* updateUserPlan: the UPDATE of users, then mapSubscription(result.rows[0]),
\* which throws when the first UPDATE returned no row; updatePlan answers,
\* handlePlanChanged goes on to mark the event processed
updatePlanUser(i) ==
  LET r == reqs[i]
      us == {IF u.id = r.uid THEN [u EXCEPT !.plan = r.plan] ELSE u : u \in users}
  IN /\ r.pc = "plan_user"
     /\ users' = us
     /\ Step(i,
           IF r.nrows = 0
             THEN IF r.kind = "wh_plan_changed"
                    THEN [r EXCEPT !.pc = "wh_failed",
                                   !.message = "Cannot read properties",
                                   !.wroteUser = (us # users)]
                    ELSE [r EXCEPT !.pc = "done", !.status = 500,
                                   !.wroteUser = (us # users),
                                   !.error = "Failed to update plan"]
           ELSE IF r.kind = "wh_plan_changed"
             THEN [r EXCEPT !.pc = "wh_mark", !.handled = TRUE,
                            !.wroteUser = (us # users),
                            !.okAtEnd = PlanApplied(us, subs, r.uid, r.plan)]
           ELSE [r EXCEPT !.pc = "done", !.status = 200,
                          !.wroteUser = (us # users),
                          !.okAtEnd = PlanApplied(us, subs, r.uid, r.plan)])
     /\ UNCHANGED <<svcVars, events, subs, apiKeys, logs, now, kvUp, rlVars, histVars>>

(***************************************************************************)
(* user.renewed: handleSubscriptionRenewed calls reset_monthly_usage().    *)
(***************************************************************************)
WebhookRenewed(i) ==
  /\ reqs[i].pc = "wh_recv"
  /\ reqs[i].event = "user.renewed"
  /\ Step(i, WebhookLookup(reqs[i], "renew"))
  /\ UNCHANGED <<svcVars, dbVars, now, kvUp, rlVars, histVars>>

\* what a renewal has to leave behind in the table sb for user u, whose
\* billing period ended at `end' before it
Renewed(sb, u, end) ==
  \E s \in sb :
    /\ s.user_id = u /\ s.status = "active"
    /\ s.current_usage = 0
    /\ s.billing_period_end = end + 1

\* the subscription row of user u (createUser gives every user one, and
\* nothing inserts another)
SubOf(u) == CHOOSE s \in subs : s.user_id = u

handleSubscriptionRenewed(i) ==
  LET r == reqs[i]
      reset == {s.user_id : s \in {s \in subs : s.billing_period_end <= Today /\
                                                 s.status = "active"}}
  IN /\ r.pc = "renew"
     /\ subs' = reset_monthly_usage
     /\ admitted' = [u \in UserIds |-> IF u \in reset THEN 0 ELSE admitted[u]]
     /\ Step(i,
           [r EXCEPT !.pc = "wh_mark", !.handled = TRUE,
                     !.rowsBefore = subs,
                     !.rowsAfter = reset_monthly_usage,
                     !.arrSubActive = (ActiveSubs(r.uid) # {}),
                     !.arrEnd = SubOf(r.uid).billing_period_end,
                     !.okAtEnd = Renewed(reset_monthly_usage, r.uid,
                                         SubOf(r.uid).billing_period_end)])
     /\ UNCHANGED <<svcVars, events, users, apiKeys, logs, now, kvUp, rlVars, admits, revoked>>

(***************************************************************************)
(* The environment: time passes, the KV store goes away and comes back.    *)
(* Rows and store entries that no later query can see (older than the      *)
(* window, expired) are dropped as time passes.                            *)
(***************************************************************************)
Aged(t) ==
  /\ Quiet
  /\ now' = t
  /\ admits' = [h \in DOMAIN admits |-> SelectAfter(admits[h], t - Duration)]
  /\ logs' = [u \in UserIds |-> SelectAfter(logs[u], t - Duration)]
  /\ rl' = [h \in DOMAIN rl |->
              IF t < rl[h].expireAt THEN rl[h] ELSE [consumed |-> 0, expireAt |-> 0]]
  /\ UNCHANGED <<svcVars, events, users, subs, apiKeys, kvUp, limiters, reqs, admitted, revoked>>

Tick ==
  /\ (now % SecondsPerMonth) < MaxTicks * TickSeconds
  /\ Aged(now + TickSeconds)

NextMonth ==
  /\ Today < MaxMonths
  /\ Aged((Today + 1) * SecondsPerMonth)

KvDown ==
  /\ Quiet
  /\ kvUp
  /\ kvUp' = FALSE
  /\ UNCHANGED <<svcVars, dbVars, now, rlVars, reqs, histVars>>

KvUp ==
  /\ Quiet
  /\ ~kvUp
  /\ kvUp' = TRUE
  /\ UNCHANGED <<svcVars, dbVars, now, rlVars, reqs, histVars>>

(***************************************************************************)
(* The flow graph engine (FlowBuilderService).  A traversal explores the   *)
(* transfers of one mint; `walk' is the state of the traversal in          *)
(* progress: its arguments, the transfers the upstream holds for the mint, *)
(* the frames of the recursion, the visited set and the paths emitted.     *)
(* Entities and block times of the nodes are left out.                     *)
(***************************************************************************)
Addresses == 1..MaxAddresses
Directions == {"forward", "backward"}
DepthInputs == 1..MaxDepthLimit

Transfer(from, to, amount) == [from |-> from, to |-> to, amount |-> amount]

\* the transfer sets a traversal is run on: every set of single transfers
\* among the first three addresses (self-transfers included), the chains
\* 1 -> 2 -> ... -> n, a diamond and a pair with two transfers
SmallAddresses == 1..3
Chain(n) == {Transfer(a, a + 1, 1) : a \in 1..(n - 1)}
Diamond ==
  {Transfer(1, 2, 1), Transfer(1, 3, 1), Transfer(2, 4, 1), Transfer(3, 4, 1)}
Repeated == {Transfer(1, 2, 1), Transfer(1, 2, 2), Transfer(2, 3, 2)}
Cycle == {Transfer(1, 2, 1), Transfer(2, 3, 1), Transfer(3, 1, 1)}
Ledgers ==
  (SUBSET {Transfer(a, b, 1) : a \in SmallAddresses, b \in SmallAddresses})
    \cup {Chain(n) : n \in 2..MaxAddresses} \cup {Diamond, Repeated}

IdleWalk ==
  [pc |-> "idle", dir |-> "forward", start |-> 0, maxDepth |-> 0,
   transfers |-> {}, stack |-> <<>>, visited |-> {}, paths |-> <<>>]

RECURSIVE SumAmounts(_)
SumAmounts(S) ==
  IF S = {} THEN 0
  ELSE LET t == CHOOSE t \in S : TRUE IN t.amount + SumAmounts(S \ {t})

RECURSIVE SumIn(_)
SumIn(nodes) ==
  IF nodes = <<>> THEN 0 ELSE Head(nodes).amountIn + SumIn(Tail(nodes))

RECURSIVE Ascending(_)
Ascending(S) ==
  IF S = {} THEN <<>> ELSE <<SetMin(S)>> \o Ascending(S \ {SetMin(S)})

Reverse(s) == [k \in 1..Len(s) |-> s[Len(s) + 1 - k]]

\* heliusService.getTokenTransfers(address, tokenMint, limit): the
\* transfers of the mint in the transactions that touch the address
getTokenTransfers(T, address) ==
  {t \in T : t.from = address \/ t.to = address}

getTransfersFromAddress(T, address) ==
  {t \in getTokenTransfers(T, address) : t.from = address}

getTransfersToAddress(T, address) ==
  {t \in getTokenTransfers(T, address) : t.to = address}

\* the transfers a frame expands and the far end of each, by direction
Expanded(w, address) ==
  IF w.dir = "forward" THEN getTransfersFromAddress(w.transfers, address)
  ELSE getTransfersToAddress(w.transfers, address)

FarEnd(w, t) == IF w.dir = "forward" THEN t.to ELSE t.from

\* aggregateTransfersByDestination / aggregateTransfersBySource: the keys
\* of the map, here in ascending order
Aggregated(w, address) ==
  Ascending({FarEnd(w, t) : t \in Expanded(w, address)})

\* the PathNode of one key of the map
PathNode(w, address, far) ==
  LET total == SumAmounts({t \in Expanded(w, address) : FarEnd(w, t) = far})
  IN [address |-> far, amountIn |-> total, amountOut |-> total]

\* createFlowPath(nodes, tokenMint), for a path that is not empty
createFlowPath(nodes) ==
  [startAddress |-> nodes[1].address,
   endAddress |-> nodes[Len(nodes)].address,
   hops |-> nodes,
   totalAmount |-> SumIn(nodes),
   hopCount |-> Len(nodes)]

\* paths.push(createFlowPath(...)) when the current path is not empty; a
\* backward traversal reverses the path first
Emitted(w, path) ==
  IF Len(path) = 0 THEN w.paths
  ELSE Append(w.paths,
              createFlowPath(IF w.dir = "forward" THEN path ELSE Reverse(path)))

Frame(address, path, depth) ==
  [address |-> address, path |-> path, depth |-> depth,
   stage |-> "enter", todo |-> <<>>]

\* a call of exploreForward / exploreBackward returns: its frame is
\* dropped, and the traversal is over when it was the first call
Returned(w) ==
  LET rest == SubSeq(w.stack, 1, Len(w.stack) - 1)
  IN [w EXCEPT !.stack = rest,
               !.pc = IF rest = <<>> THEN "returned" ELSE "running"]

\* buildForwardPath / buildBackwardPath(address, tokenMint, maxDepth,
\* timeRange): a new visited set, no paths, and the first call
buildPath(dir, address, maxDepth, T) ==
  /\ walk.pc = "idle"
  /\ walk' = [IdleWalk EXCEPT !.pc = "running", !.dir = dir,
                               !.start = address, !.maxDepth = maxDepth,
                               !.transfers = T,
                               !.stack = <<Frame(address, <<>>, 0)>>]
  /\ UNCHANGED besidesWalk

\* an exploration without the depth limit among its safety limits
exploreEnterUnbounded ==
  LET w == walk
      f == w.stack[Len(w.stack)]
      entered == [w EXCEPT !.visited = @ \cup {f.address}]
  IN /\ w.pc = "running"
     /\ f.stage = "enter"
     /\ walk' =
          IF \/ Cardinality(w.visited) > VisitedCap
             \/ Len(w.paths) > PathsCap
            THEN Returned([w EXCEPT !.paths = Emitted(w, f.path)])
          ELSE IF f.address \in w.visited
            THEN Returned(w)
          ELSE IF Expanded(w, f.address) = {}
            THEN Returned([entered EXCEPT !.paths = Emitted(w, f.path)])
          ELSE [entered EXCEPT
                  !.stack[Len(w.stack)] =
                     [f EXCEPT !.stage = "loop",
                               !.todo = Aggregated(w, f.address)]]
     /\ UNCHANGED besidesWalk

\* exploreForward / exploreBackward from its entry to the start of the
\* loop: the safety limits, the visited check, visited.add, the fetch of
\* the transfers and the leaf case
exploreEnter ==
  LET w == walk
      f == w.stack[Len(w.stack)]
      entered == [w EXCEPT !.visited = @ \cup {f.address}]
  IN /\ w.pc = "running"
     /\ f.stage = "enter"
     /\ walk' =
          IF \/ f.depth >= w.maxDepth
             \/ Cardinality(w.visited) > VisitedCap
             \/ Len(w.paths) > PathsCap
            THEN Returned([w EXCEPT !.paths = Emitted(w, f.path)])
          ELSE IF f.address \in w.visited
            THEN Returned(w)
          ELSE IF Expanded(w, f.address) = {}
            THEN Returned([entered EXCEPT !.paths = Emitted(w, f.path)])
          ELSE [entered EXCEPT
                  !.stack[Len(w.stack)] =
                     [f EXCEPT !.stage = "loop",
                               !.todo = Aggregated(w, f.address)]]
     /\ UNCHANGED besidesWalk

\* one turn of the loop over the aggregated transfers: the node of the
\* next key and the recursive call; after the last key, visited.delete
\* and the return
exploreLoop ==
  LET w == walk
      f == w.stack[Len(w.stack)]
      far == Head(f.todo)
      node == PathNode(w, f.address, far)
      newPath == IF w.dir = "forward" THEN Append(f.path, node)
                 ELSE <<node>> \o f.path
  IN /\ w.pc = "running"
     /\ f.stage = "loop"
     /\ walk' =
          IF f.todo = <<>>
            THEN Returned([w EXCEPT !.visited = @ \ {f.address}])
          ELSE [w EXCEPT
                  !.stack = Append([w.stack EXCEPT
                                      ![Len(w.stack)].todo = Tail(f.todo)],
                                   Frame(far, newPath, f.depth + 1))]
     /\ UNCHANGED besidesWalk

\* the paths are saved and returned to the caller
walkReturn ==
  /\ walk.pc = "returned"
  /\ walk' = IdleWalk
  /\ UNCHANGED besidesWalk

(***************************************************************************)
(* The risk engine (RiskScoringService.assessRisk).  `risk' holds, per     *)
(* address, the assessment in the cache and the one last saved, and the    *)
(* assessment last returned.  The five checks are other functions; what    *)
(* they found is an input of the assessment.                               *)
(***************************************************************************)
RiskAddresses == 1..2

\* what checkMixerProximity, checkVelocity, detectCircularFlows,
\* detectPeelChain and checkSanctionedProximity found
Findings ==
  [mixer : BOOLEAN, velocity : BOOLEAN, circular : BOOLEAN, peel : BOOLEAN,
   direct : BOOLEAN, within2Hops : BOOLEAN]

NoAssessment == [address |-> 0, riskScore |-> 0, riskLevel |-> "", flags |-> <<>>]

IdleRisk ==
  [cache |-> [a \in RiskAddresses |-> NoAssessment],
   saved |-> [a \in RiskAddresses |-> NoAssessment],
   out |-> NoAssessment]

Flag(present, type) == IF present THEN <<type>> ELSE <<>>

\* the flags pushed and the score accumulated by the checks
accumulate(found) ==
  [flags |->
     Flag(found.mixer, "mixer_proximity") \o
     Flag(found.velocity, "high_velocity") \o
     Flag(found.circular, "circular_flow") \o
     Flag(found.peel, "peel_chain") \o
     Flag(found.direct, "sanctioned_direct") \o
     Flag(~found.direct /\ found.within2Hops, "sanctioned_proximity"),
   score |->
     LET before == (IF found.mixer THEN 40 ELSE 0) +
                   (IF found.velocity THEN 20 ELSE 0) +
                   (IF found.circular THEN 25 ELSE 0) +
                   (IF found.peel THEN 35 ELSE 0)
     IN IF found.direct THEN 100
        ELSE IF found.within2Hops THEN before + 50
        ELSE before]

scoreToLevel(score) ==
  IF score >= 75 THEN "critical"
  ELSE IF score >= 50 THEN "high"
  ELSE IF score >= 25 THEN "medium"
  ELSE "low"

\* the assessment with the accumulated score as it is
assessmentUnclamped(address, found) ==
  LET acc == accumulate(found)
  IN [address |-> address, riskScore |-> acc.score,
      riskLevel |-> scoreToLevel(acc.score), flags |-> acc.flags]

\* the assessment: riskScore is Math.min(score, 100)
assessment(address, found) ==
  LET acc == accumulate(found)
  IN [address |-> address, riskScore |-> Min(acc.score, 100),
      riskLevel |-> scoreToLevel(acc.score), flags |-> acc.flags]

\* assessRisk(address, tokenMint): the cached assessment, or a new one
\* that is saved to the entity row and the flag rows, and cached
assessRisk(address, found) ==
  LET a == assessment(address, found)
  IN /\ risk' =
          IF risk.cache[address] # NoAssessment
            THEN [risk EXCEPT !.out = risk.cache[address]]
          ELSE [risk EXCEPT !.saved[address] = a,
                            !.cache[address] = a,
                            !.out = a]
     /\ UNCHANGED besidesRisk

\* the cache entry of an address expires (600 seconds)
riskCacheExpired(address) ==
  /\ risk.cache[address] # NoAssessment
  /\ risk' = [risk EXCEPT !.cache[address] = NoAssessment]
  /\ UNCHANGED besidesRisk

(***************************************************************************)
(* The upstream adapter (HeliusService).  Its constructor builds a         *)
(* CircuitBreaker; no method of the service calls it, so the breaker has   *)
(* no state that changes.  `helius' holds the signatures in the cache,     *)
(* the number of upstream calls that failed in a row and the time the      *)
(* fifth of them failed (both kept for the properties), and what the last  *)
(* call did.                                                               *)
(***************************************************************************)
TxSignatures == 1..2
UpstreamReplies == {"transaction", "missing", "error"}

NoCall ==
  [signature |-> 0, cached |-> FALSE, contacted |-> FALSE, result |-> "",
   streakBefore |-> 0, sinceTrip |-> NULL]

IdleHelius == [cache |-> {}, streak |-> 0, trippedAt |-> NULL, last |-> NoCall]

\* getTransaction(signature) with the reply of the upstream: the cached
\* transaction, or connection.getParsedTransaction, whose error is thrown
\* to the caller as it is
getTransaction(signature, reply) ==
  LET call == [NoCall EXCEPT
                 !.signature = signature,
                 !.streakBefore = helius.streak,
                 !.sinceTrip = IF helius.trippedAt = NULL THEN NULL
                               ELSE now - helius.trippedAt]
      failed == Min(helius.streak + 1, FailureThreshold + 1)
  IN /\ helius' =
          IF signature \in helius.cache
            THEN [helius EXCEPT
                    !.last = [call EXCEPT !.cached = TRUE,
                                          !.result = "transaction"]]
          ELSE IF reply = "error"
            THEN [helius EXCEPT
                    !.streak = failed,
                    !.trippedAt = IF failed = FailureThreshold THEN now ELSE @,
                    !.last = [call EXCEPT !.contacted = TRUE,
                                          !.result = "threw"]]
          ELSE IF reply = "missing"
            THEN [helius EXCEPT
                    !.streak = 0, !.trippedAt = NULL,
                    !.last = [call EXCEPT !.contacted = TRUE,
                                          !.result = "null"]]
          ELSE [helius EXCEPT
                  !.cache = @ \cup {signature},
                  !.streak = 0, !.trippedAt = NULL,
                  !.last = [call EXCEPT !.contacted = TRUE,
                                        !.result = "transaction"]]
     /\ UNCHANGED besidesHelius

\* the cache entry of a transaction expires (3600 seconds)
txCacheExpired(signature) ==
  /\ signature \in helius.cache
  /\ helius' = [helius EXCEPT !.cache = @ \ {signature}]
  /\ UNCHANGED besidesHelius

(***************************************************************************)
(* The intent client (MLService).  `ml' holds the cached prediction of     *)
(* each signature (Uncached when there is none) and what the last call     *)
(* did.                                                                    *)
(***************************************************************************)
Intents == {"swap", "transfer"}
Confidences == {60, 90}
Predictions == [intent : Intents, confidence : Confidences]
Unknown0 == [intent |-> "unknown", confidence |-> 0]
Uncached == [intent |-> "", confidence |-> 0]
ClassifierReplies == Predictions \cup {[intent |-> "error", confidence |-> 0]}
Failed(reply) == reply.intent = "error"

NoPrediction ==
  [op |-> "", signatures |-> <<>>, outcome |-> "", predictions |-> <<>>,
   contacted |-> <<>>, failed |-> <<>>, cacheBefore |-> <<>>]

IdleMl == [cache |-> [g \in TxSignatures |-> Uncached], last |-> NoPrediction]

\* one predictIntent over a cache: the cached prediction, or the reply of
\* POST /predict, cached for 3600 seconds; a failed POST rejects
predictIntentOn(cache, signature, reply) ==
  IF cache[signature] # Uncached
    THEN [threw |-> FALSE, prediction |-> cache[signature],
          contacted |-> FALSE, cache |-> cache]
  ELSE IF Failed(reply)
    THEN [threw |-> TRUE, prediction |-> Uncached,
          contacted |-> TRUE, cache |-> cache]
  ELSE [threw |-> FALSE, prediction |-> reply, contacted |-> TRUE,
        cache |-> [cache EXCEPT ![signature] = reply]]

\* the same with the failure caught and {unknown, 0} in its place
predictIntentCaught(cache, signature, reply) ==
  LET p == predictIntentOn(cache, signature, reply)
  IN IF p.threw THEN [p EXCEPT !.threw = FALSE, !.prediction = Unknown0]
     ELSE p

predictIntent(signature, reply) ==
  LET p == predictIntentOn(ml.cache, signature, reply)
  IN /\ ml' = [cache |-> p.cache,
               last |-> [op |-> "predictIntent",
                         signatures |-> <<signature>>,
                         outcome |-> IF p.threw THEN "threw" ELSE "returned",
                         predictions |-> IF p.threw THEN <<>>
                                         ELSE <<p.prediction>>,
                         contacted |-> <<p.contacted>>,
                         failed |-> <<p.contacted /\ Failed(reply)>>,
                         cacheBefore |-> ml.cache]]
     /\ UNCHANGED besidesMl

\* predictBatch over two transactions: each failure is caught and
\* {unknown, 0} pushed in its place
predictBatch(first, second, reply1, reply2) ==
  LET p == predictIntentCaught(ml.cache, first, reply1)
      q == predictIntentCaught(p.cache, second, reply2)
  IN /\ ml' = [cache |-> q.cache,
               last |-> [op |-> "predictBatch",
                         signatures |-> <<first, second>>,
                         outcome |-> "returned",
                         predictions |-> <<p.prediction, q.prediction>>,
                         contacted |-> <<p.contacted, q.contacted>>,
                         failed |-> <<p.contacted /\ Failed(reply1),
                                      q.contacted /\ Failed(reply2)>>,
                         cacheBefore |-> ml.cache]]
     /\ UNCHANGED besidesMl

\* the cache entry of a prediction expires
intentCacheExpired(signature) ==
  /\ ml.cache[signature] # Uncached
  /\ ml' = [ml EXCEPT !.cache[signature] = Uncached]
  /\ UNCHANGED besidesMl

(***************************************************************************)
(* Transaction-type classification of the token-activity analysis.  An     *)
(* enhanced transaction is its upstream tag ("" when it has none), whether *)
(* it carries a swap event, and its token transfers; amounts are in        *)
(* hundredths, NULL when the entry has none.  `activity' is the last       *)
(* transaction classified, with the type it got.                           *)
(***************************************************************************)
WRAPPED_SOL == "So11111111111111111111111111111111111111112"
Mints == {"T", "USDC", WRAPPED_SOL}
TargetMints == {"T", "USDC"}
Tags == {"", "TRANSFER", "transfer", "TOKEN_TRANSFER", "SWAP", "swap_exact", "UNKNOWN"}
TokenAmounts == {NULL, Dust, 5 * Dust}
TokenTransfers == [mint : Mints, tokenAmount : TokenAmounts]
TransferLists ==
  {<<>>} \cup {<<a>> : a \in TokenTransfers}
         \cup {<<a, b>> : a \in TokenTransfers, b \in TokenTransfers}
EnhancedTxs == [type : Tags, swap : BOOLEAN, tokenTransfers : TransferLists]

NoActivity ==
  [tx |-> [type |-> "", swap |-> FALSE, tokenTransfers |-> <<>>],
   target |-> "", txType |-> ""]

\* String.prototype.toUpperCase over the tags
toUpperCase(tag) ==
  CASE tag = "transfer" -> "TRANSFER"
    [] tag = "swap_exact" -> "SWAP_EXACT"
    [] OTHER -> tag

\* txType.includes('SWAP')
includesSWAP(tag) == tag \in {"SWAP", "SWAP_EXACT"}

\* the mints that count: every mint but wrapped SOL of at most 0.1
significantMints(tx) ==
  {tx.tokenTransfers[k].mint : k \in
     {k \in 1..Len(tx.tokenTransfers) :
        LET tt == tx.tokenTransfers[k]
            amount == IF tt.tokenAmount = NULL THEN 0 ELSE tt.tokenAmount
        IN tt.mint # WRAPPED_SOL \/ amount > Dust}}

\* a classifier that believes a SWAP tag before it counts the mints
classifyTrustingTag(tx, targetTokenMint) ==
  IF Len(tx.tokenTransfers) = 0 THEN "unknown"
  ELSE IF tx.type # "" /\ toUpperCase(tx.type) \in {"TRANSFER", "TOKEN_TRANSFER"}
    THEN "transfer"
  ELSE IF tx.swap \/ (tx.type # "" /\ includesSWAP(toUpperCase(tx.type)))
    THEN "swap"
  ELSE IF Cardinality(significantMints(tx)) < 2 THEN "transfer"
  ELSE "swap"

classifyTransactionType(tx, targetTokenMint) ==
  LET hasMultipleTokenTypes == Cardinality(significantMints(tx)) >= 2
  IN IF Len(tx.tokenTransfers) = 0 THEN "unknown"
     ELSE IF tx.type # "" /\ toUpperCase(tx.type) \in {"TRANSFER", "TOKEN_TRANSFER"}
       THEN "transfer"
     ELSE IF ~hasMultipleTokenTypes THEN "transfer"
     ELSE IF tx.swap THEN "swap"
     ELSE IF tx.type # "" /\ includesSWAP(toUpperCase(tx.type)) THEN "swap"
     ELSE "swap"

\* the analysis classifies one transaction of a batch
classify(tx, tokenMint) ==
  /\ activity' = [tx |-> tx, target |-> tokenMint,
                  txType |-> classifyTransactionType(tx, tokenMint)]
  /\ UNCHANGED besidesActivity

(***************************************************************************)
(* Cycle detection (FlowBuilderService.detectCircularFlows).  The upstream *)
(* answers with the token transfers of every transaction that touches the  *)
(* address; `cyc' is the state of the search in progress: the adjacency    *)
(* map, the frames of dfs, its visited set and the cycles found.           *)
(***************************************************************************)
TwoCycles ==
  {Transfer(1, 2, 1), Transfer(2, 3, 1), Transfer(3, 1, 1),
   Transfer(1, 4, 1), Transfer(4, 3, 1)}
CycleLedgers ==
  (SUBSET {Transfer(a, b, 1) : a \in SmallAddresses, b \in SmallAddresses})
    \cup {TwoCycles}
Orders == {"ascending", "descending"}

IdleCycles ==
  [pc |-> "idle", start |-> 0, all |-> {}, transfers |-> {},
   order |-> "ascending", stack |-> <<>>, visited |-> {}, cycles |-> <<>>,
   flows |-> <<>>]

\* the transactions of a ledger: one that holds every transfer, or one per
\* transfer
Transactions(T, bundled) == IF bundled THEN {T} ELSE {{t} : t \in T}

\* getAllTransfersForAddress: the transfers of the transactions that touch
\* the address
getAllTransfersForAddress(Txs, address) ==
  UNION {tx \in Txs : \E t \in tx : t.from = address \/ t.to = address}

\* graph.get(node) || new Set(), in the order of iteration
Neighbors(c, node) ==
  LET asc == Ascending({t.to : t \in {t \in c.transfers : t.from = node}})
  IN IF c.order = "ascending" THEN asc ELSE Reverse(asc)

DfsFrame(node, path) ==
  [node |-> node, path |-> path, stage |-> "enter", todo |-> <<>>]

\* the CircularFlow of a cycle: the transfers with both ends in it
CircularFlow(transfers, cycle) ==
  LET cycleTransfers ==
        {t \in transfers : t.from \in {cycle[k] : k \in 1..Len(cycle)}
                           /\ t.to \in {cycle[k] : k \in 1..Len(cycle)}}
  IN [addresses |-> cycle, totalAmount |-> SumAmounts(cycleTransfers),
      cycleCount |-> Cardinality(cycleTransfers)]

\* detectCircularFlows(address, tokenMint) up to the first call of dfs
detectCircularFlows(address, T, bundled, order) ==
  /\ cyc.pc = "idle"
  /\ cyc' = [IdleCycles EXCEPT
               !.pc = "running", !.start = address, !.all = T,
               !.transfers =
                  getAllTransfersForAddress(Transactions(T, bundled), address),
               !.order = order,
               !.stack = <<DfsFrame(address, <<>>)>>]
  /\ UNCHANGED besidesCyc

\* dfs(node, path) up to its loop: visited.add and path.push
dfsEnter ==
  LET f == cyc.stack[Len(cyc.stack)]
  IN /\ cyc.pc = "running"
     /\ f.stage = "enter"
     /\ cyc' = [cyc EXCEPT
                  !.visited = @ \cup {f.node},
                  !.stack[Len(cyc.stack)] =
                     [f EXCEPT !.stage = "loop",
                               !.path = Append(f.path, f.node),
                               !.todo = Neighbors(cyc, f.node)]]
     /\ UNCHANGED besidesCyc

\* one turn of the loop over the neighbours, or the return of dfs; when
\* the first call returns, the flows of the cycles are built
dfsLoop ==
  LET f == cyc.stack[Len(cyc.stack)]
      neighbor == Head(f.todo)
      rest == [cyc.stack EXCEPT ![Len(cyc.stack)].todo = Tail(f.todo)]
      popped == SubSeq(cyc.stack, 1, Len(cyc.stack) - 1)
  IN /\ cyc.pc = "running"
     /\ f.stage = "loop"
     /\ cyc' =
          IF f.todo = <<>>
            THEN IF popped = <<>>
                   THEN [cyc EXCEPT
                           !.stack = popped, !.pc = "returned",
                           !.flows = [k \in 1..Len(cyc.cycles) |->
                                        CircularFlow(cyc.transfers, cyc.cycles[k])]]
                 ELSE [cyc EXCEPT !.stack = popped]
          ELSE IF neighbor = cyc.start /\ Len(f.path) > 2
            THEN [cyc EXCEPT !.stack = rest,
                             !.cycles = Append(@, Append(f.path, neighbor))]
          ELSE IF neighbor \notin cyc.visited
            THEN [cyc EXCEPT !.stack = Append(rest, DfsFrame(neighbor, f.path))]
          ELSE [cyc EXCEPT !.stack = rest]
     /\ UNCHANGED besidesCyc

\* the flows are returned to the caller
cyclesReturn ==
  /\ cyc.pc = "returned"
  /\ cyc' = IdleCycles
  /\ UNCHANGED besidesCyc


(***************************************************************************)
(* The proximity checks of the risk engine (checkMixerProximity,           *)
(* checkSanctionedProximity).  Both run the same search over the transfers *)
(* table; `prox' is the check in progress or just answered.                *)
(***************************************************************************)
\* 1 -> 2 -> 3 -> 4 with the shorter way 1 -> 3
Shortcut ==
  {Transfer(1, 2, 1), Transfer(2, 3, 1), Transfer(3, 4, 1), Transfer(1, 3, 1)}
ProximityLedgers ==
  (SUBSET {Transfer(a, b, 1) : a \in SmallAddresses, b \in SmallAddresses})
    \cup {Shortcut}
ListedAddresses == 1..4
ProximityChecks == {"mixer", "sanctioned"}

IdleProx ==
  [pc |-> "idle", check |-> "", address |-> 0, transfers |-> {},
   listed |-> {}, order |-> "ascending",
   direct |-> FALSE, within2Hops |-> FALSE, found |-> <<>>, visited |-> {}]

\* SELECT DISTINCT to_address FROM transfers WHERE from_address = $1 AND
\* token_mint = $2 LIMIT 10, in the order the table gives them
toAddresses(p, address) ==
  LET asc == Ascending({t.to : t \in {t \in p.transfers : t.from = address}})
      rows == IF p.order = "ascending" THEN asc ELSE Reverse(asc)
  IN SubSeq(rows, 1, Min(Len(rows), FanOut))

\* bfs(currentAddr, depth) of a check, st the visited set and the
\* addresses found so far; bfsRows is its loop over the rows
RECURSIVE bfs(_, _, _, _)
RECURSIVE bfsRows(_, _, _, _)
bfs(p, st, currentAddr, depth) ==
  IF depth > MaxHops \/ currentAddr \in st.visited THEN st
  ELSE LET seen == [st EXCEPT !.visited = @ \cup {currentAddr}]
       IN IF currentAddr \in p.listed
            THEN [seen EXCEPT
                    !.found = Append(@, [address |-> currentAddr,
                                         hops |-> depth])]
          ELSE bfsRows(p, seen, toAddresses(p, currentAddr), depth + 1)

bfsRows(p, st, rows, depth) ==
  IF rows = <<>> THEN st
  ELSE bfsRows(p, bfs(p, st, Head(rows), depth), Tail(rows), depth)

\* a request for an assessment reaches one of the two checks
proximityCall(check, address, T, listed, order) ==
  /\ prox.pc = "idle"
  /\ prox' = [IdleProx EXCEPT !.pc = "called", !.check = check,
                               !.address = address, !.transfers = T,
                               !.listed = listed, !.order = order]
  /\ UNCHANGED besidesProx

\* checkMixerProximity(address, tokenMint)
checkMixerProximity ==
  LET st == bfs(prox, [visited |-> {}, found |-> <<>>], prox.address, 0)
  IN /\ prox.pc = "called"
     /\ prox.check = "mixer"
     /\ prox' = [prox EXCEPT !.pc = "answered",
                             !.within2Hops = Len(st.found) > 0,
                             !.found = st.found, !.visited = st.visited]
     /\ UNCHANGED besidesProx

\* checkSanctionedProximity(address, tokenMint)
checkSanctionedProximity ==
  LET st == bfs(prox, [visited |-> {}, found |-> <<>>], prox.address, 0)
  IN /\ prox.pc = "called"
     /\ prox.check = "sanctioned"
     /\ prox' =
          IF prox.address \in prox.listed
            THEN [prox EXCEPT !.pc = "answered", !.direct = TRUE,
                              !.within2Hops = TRUE]
          ELSE [prox EXCEPT !.pc = "answered",
                            !.within2Hops = Len(st.found) > 0,
                            !.found = st.found, !.visited = st.visited]
     /\ UNCHANGED besidesProx

\* the result goes into the assessment
proximityReturn ==
  /\ prox.pc = "answered"
  /\ prox' = IdleProx
  /\ UNCHANGED besidesProx


(***************************************************************************)
(* The entity registry (EntityService).  `ent' holds the rows of the       *)
(* entities table, the entries of the key-value store, the in-process      *)
(* entityCache, the addresses written since the start with the last write, *)
(* and what the last identifyEntity returned.                              *)
(***************************************************************************)
EntityAddresses == 1..2
\* the address that is a known DEX program
dexPrograms == {2}
RiskValues ==
  {[riskLevel |-> "low", riskScore |-> 0],
   [riskLevel |-> "high", riskScore |-> 60]}

NoEntity == [address |-> 0, entityType |-> "", riskLevel |-> "", riskScore |-> 0]
Entity(address, entityType, value) ==
  [address |-> address, entityType |-> entityType,
   riskLevel |-> value.riskLevel, riskScore |-> value.riskScore]

NoLookup == [op |-> "", address |-> 0, returned |-> NoEntity]
NoWrite == [op |-> "", address |-> 0]

\* after the start: one row in the table, loaded into entityCache
StartedEntities ==
  LET rows == [a \in EntityAddresses |->
                 IF a = 1
                   THEN Entity(1, "exchange", [riskLevel |-> "low", riskScore |-> 0])
                 ELSE NoEntity]
  IN [rows |-> rows, kv |-> [a \in EntityAddresses |-> NoEntity],
      entityCache |-> rows, written |-> {}, lastWrite |-> NoWrite,
      last |-> NoLookup]

\* UPDATE entities SET risk_level, risk_score WHERE address: the rows after
WithRisk(rows, address, value) ==
  IF rows[address] = NoEntity THEN rows
  ELSE [rows EXCEPT ![address] = [@ EXCEPT !.riskLevel = value.riskLevel,
                                            !.riskScore = value.riskScore]]

Wrote(e, op, address) ==
  [e EXCEPT !.written = IF e.rows[address] = NoEntity THEN @
                        ELSE @ \cup {address},
            !.lastWrite = [op |-> op, address |-> address],
            !.last = NoLookup]

\* saveEntity(entity): the upsert, then entityCache.set
saveEntityOn(e, entity) ==
  [e EXCEPT !.rows[entity.address] = entity,
            !.entityCache[entity.address] = entity]

saveEntity(entity) ==
  /\ ent' = Wrote(saveEntityOn(ent, entity), "saveEntity", entity.address)
  /\ UNCHANGED besidesEnt

\* flagEntityAsRisky(address, riskLevel, riskScore, reason): the UPDATE,
\* then redis.del
flagEntityAsRisky(address, value) ==
  /\ ent' = Wrote([ent EXCEPT !.rows = WithRisk(@, address, value),
                              !.kv[address] = NoEntity],
                  "flagEntityAsRisky", address)
  /\ UNCHANGED besidesEnt

\* saveRiskAssessment(assessment): the UPDATE of the entity row
saveRiskAssessment(address, value) ==
  /\ ent' = Wrote([ent EXCEPT !.rows = WithRisk(@, address, value)],
                  "saveRiskAssessment", address)
  /\ UNCHANGED besidesEnt

\* identifyEntity(address): the key-value entry, else the entry of
\* entityCache (stored for 3600 s), else a new entity for a known program
\* (saved and stored), else null
identifyEntity(address) ==
  LET known == Entity(address, "dex", [riskLevel |-> "low", riskScore |-> 0])
      answer(e, entity) ==
        [e EXCEPT !.last = [op |-> "identifyEntity", address |-> address,
                            returned |-> entity]]
  IN /\ ent' =
          IF ent.kv[address] # NoEntity
            THEN answer(ent, ent.kv[address])
          ELSE IF ent.entityCache[address] # NoEntity
            THEN answer([ent EXCEPT !.kv[address] = ent.entityCache[address]],
                        ent.entityCache[address])
          ELSE IF address \in dexPrograms
            THEN answer([Wrote(saveEntityOn(ent, known), "saveEntity", address)
                           EXCEPT !.kv[address] = known],
                        known)
          ELSE answer(ent, NoEntity)
     /\ UNCHANGED besidesEnt

\* the key-value entry of an address expires
entityKvExpired(address) ==
  /\ ent.kv[address] # NoEntity
  /\ ent' = [ent EXCEPT !.kv[address] = NoEntity, !.last = NoLookup]
  /\ UNCHANGED besidesEnt


(***************************************************************************)
(* A limiter table of small capacity.  `lru' is a table like `limiters'    *)
(* that holds TableSize entries, driven by getLimiter: a get and, when it  *)
(* finds nothing, a set.  `last' is that set: the key, the table it was    *)
(* applied to and the table it left.                                       *)
(***************************************************************************)
TableKeys == HashBase + 1 .. HashBase + 3
TablePoints == {StarterRate, ProRate}

NoSet == [key |-> 0, before |-> <<>>, after |-> <<>>]
IdleTable == [cache |-> <<>>, last |-> NoSet]

\* getLimiter(keyHash, points) on the small table
getLimiterSmall(keyHash, points) ==
  LET g == LruGet(lru.cache, keyHash)
      limiter == [points |-> points, client |-> getClient]
      after == LruSetAt(g.cache, keyHash, limiter, TableSize)
  IN /\ lru' = IF g.hit THEN [cache |-> g.cache, last |-> NoSet]
               ELSE [cache |-> after,
                     last |-> [key |-> keyHash, before |-> g.cache,
                               after |-> after]]
     /\ UNCHANGED besidesLru


(***************************************************************************)
(* Ingestion (TransactionIndexerService.processTransaction).  `store'      *)
(* holds the committed rows: the signatures in transactions, the number of *)
(* transfer rows of each signature; and the calls in progress, each on a   *)
(* database client of its own.  A call's rows are its own until COMMIT.    *)
(* transactions.signature is the primary key: an INSERT waits for another  *)
(* call's pending row of the same signature and fails once that row is     *)
(* committed.                                                              *)
(***************************************************************************)
IngestCalls == 1..2
IngestSignatures == 1..2
\* the transfers parseTransferInstructions finds in a transaction
TransfersPerTx == 2
\* where a call meets an error, if anywhere
IngestFailures == {"none", "parse", "transfer", "entity"}

IdleIngest ==
  [pc |-> "idle", signature |-> 0, fails |-> "none", pendingTx |-> FALSE,
   pendingTransfers |-> 0, committed |-> FALSE]

EmptyStore ==
  [transactions |-> {}, transfers |-> [g \in IngestSignatures |-> 0],
   calls |-> [c \in IngestCalls |-> IdleIngest]]

\* processTransaction(tx, tokenMint) through BEGIN and the SELECT: a
\* transaction that is there already ends the call with ROLLBACK
processBegin(c, signature, fails) ==
  /\ store.calls[c].pc = "idle"
  /\ store' = [store EXCEPT
                 !.calls[c] =
                    [IdleIngest EXCEPT
                       !.signature = signature, !.fails = fails,
                       !.pc = IF signature \in store.transactions
                                THEN "returned" ELSE "selected"]]
  /\ UNCHANGED besidesStore

\* INSERT INTO transactions: a unique violation takes the call to the
\* catch block, which rolls back and throws
processInsert(c) ==
  LET call == store.calls[c]
  IN /\ call.pc = "selected"
     /\ \A d \in IngestCalls \ {c} :
          ~(store.calls[d].pendingTx /\ store.calls[d].signature = call.signature)
     /\ store' = [store EXCEPT
                    !.calls[c] =
                       IF call.signature \in store.transactions
                         THEN [call EXCEPT !.pc = "threw"]
                       ELSE [call EXCEPT !.pc = "inserted", !.pendingTx = TRUE]]
     /\ UNCHANGED besidesStore

\* parseTransferInstructions, indexTransfer for each transfer, COMMIT; an
\* error on the way rolls the call's rows back and throws
processTransfers(c) ==
  LET call == store.calls[c]
  IN /\ call.pc = "inserted"
     /\ store' =
          IF call.fails \in {"parse", "transfer"}
            THEN [store EXCEPT
                    !.calls[c] = [call EXCEPT !.pc = "threw",
                                              !.pendingTx = FALSE,
                                              !.pendingTransfers = 0]]
          ELSE [store EXCEPT
                  !.transactions = @ \cup {call.signature},
                  !.transfers[call.signature] = @ + TransfersPerTx,
                  !.calls[c] = [call EXCEPT !.pc = "committed",
                                            !.pendingTx = FALSE,
                                            !.committed = TRUE]]
     /\ UNCHANGED besidesStore

\* updateEntityCache(transfers), inside the try block after COMMIT: an
\* error reaches the catch block, whose ROLLBACK has nothing to undo
processEntities(c) ==
  LET call == store.calls[c]
  IN /\ call.pc = "committed"
     /\ store' = [store EXCEPT
                    !.calls[c].pc = IF call.fails = "entity" THEN "threw"
                                    ELSE "returned"]
     /\ UNCHANGED besidesStore

\* finally: the client is released and the call is over
processEnd(c) ==
  /\ store.calls[c].pc \in {"returned", "threw"}
  /\ store' = [store EXCEPT !.calls[c] = IdleIngest]
  /\ UNCHANGED besidesStore


(***************************************************************************)
(* The indexer (TransactionIndexerService).  `indexer' holds the isRunning *)
(* flag of the service's state, the flag in the state saved under          *)
(* indexer:state ("none" before the first save), the loops of              *)
(* indexHistoricalTransactions in progress, each at its while test or in   *)
(* a batch, and how the last startIndexing went.  lastProcessedSlot counts *)
(* the batches processed, up to MaxSlot.                                   *)
(***************************************************************************)
IndexLoops == 1..2
BatchOutcomes == {"processed", "empty", "error"}

NewIndexer ==
  [isRunning |-> FALSE, lastProcessedSlot |-> 0,
   saved |-> "none", savedSlot |-> 0,
   loops |-> [l \in IndexLoops |-> "none"], started |-> ""]

Executing(x) == {l \in IndexLoops : x.loops[l] # "none"}

\* startIndexing(address, tokenMint) up to the call of the loop
startIndexing ==
  /\ indexer' =
       IF indexer.isRunning THEN [indexer EXCEPT !.started = "already running"]
       ELSE LET l == CHOOSE l \in IndexLoops : indexer.loops[l] = "none"
            IN [indexer EXCEPT !.isRunning = TRUE, !.loops[l] = "test",
                               !.started = "started"]
  /\ UNCHANGED besidesIndexer

\* while (this.state.isRunning): into the batch, or out of the loop and
\* isRunning = false
loopTest(l) ==
  /\ indexer.loops[l] = "test"
  /\ indexer' = IF indexer.isRunning
                  THEN [indexer EXCEPT !.loops[l] = "batch", !.started = ""]
                ELSE [indexer EXCEPT !.loops[l] = "none", !.started = ""]
  /\ UNCHANGED besidesIndexer

\* one batch: no transactions left (break, isRunning = false), an error
\* (the catch of startIndexing sets isRunning = false), or the batch
\* processed and the state saved
loopBatch(l, outcome) ==
  /\ indexer.loops[l] = "batch"
  /\ indexer' =
       IF outcome = "processed"
         THEN [indexer EXCEPT
                 !.lastProcessedSlot = Min(@ + 1, MaxSlot),
                 !.saved = IF indexer.isRunning THEN "running" ELSE "stopped",
                 !.savedSlot = Min(indexer.lastProcessedSlot + 1, MaxSlot),
                 !.loops[l] = "test", !.started = ""]
       ELSE [indexer EXCEPT !.isRunning = FALSE, !.loops[l] = "none",
                            !.started = ""]
  /\ UNCHANGED besidesIndexer

\* stop()
stop ==
  /\ indexer' = [indexer EXCEPT !.isRunning = FALSE, !.started = ""]
  /\ UNCHANGED besidesIndexer

\* the process starts again: a new service object, then initialize(),
\* which takes the saved state when there is one
initialize ==
  /\ indexer' = [NewIndexer EXCEPT
                   !.saved = indexer.saved,
                   !.savedSlot = indexer.savedSlot,
                   !.isRunning = indexer.saved = "running",
                   !.lastProcessedSlot = indexer.savedSlot]
  /\ UNCHANGED besidesIndexer


(***************************************************************************)
(* The system.                                                             *)
(***************************************************************************)
KeyHashes == {hashApiKey(k) : k \in KeyIds}

Init ==
  /\ users = {}
  /\ subs = {}
  /\ apiKeys = {}
  /\ logs = [u \in UserIds |-> <<>>]
  /\ events = {}
  /\ now = 0
  /\ kvUp \in BOOLEAN
  /\ rl = [h \in KeyHashes |-> [consumed |-> 0, expireAt |-> 0]]
  /\ limiters = <<>>
  /\ reqs = [i \in Slots |-> IdleReq]
  /\ admitted = [u \in UserIds |-> 0]
  /\ admits = [h \in KeyHashes |-> <<>>]
  /\ revoked = {}
  /\ walk = IdleWalk
  /\ risk = IdleRisk
  /\ helius = IdleHelius
  /\ ml = IdleMl
  /\ activity = NoActivity
  /\ cyc = IdleCycles
  /\ prox = IdleProx
  /\ ent = StartedEntities
  /\ lru = IdleTable
  /\ store = EmptyStore
  /\ indexer = NewIndexer

Responses ==
  /\ \E i \in Slots : Respond(i)
  /\ UNCHANGED <<svcVars, dbVars, now, kvUp, rlVars, histVars>>

\* the values a client may send in the x-api-key header; 0 is no header
KeyInputs == 0..(MaxKeys + 1)

\* registrations through POST /api/v1/users/register with the email
\* addresses of E, and the createUser call of either caller
Registration(E) ==
  \/ \E i \in Slots, e \in E, p \in PlanInputs : RequestRegister(i, e, p)
  \/ \E i \in Slots : CreateUserStep(i)

\* the createUser call alone
Creation == \E i \in Slots : CreateUserStep(i)

\* deliveries of the events Evs with the email addresses of E, signed as in
\* Sigs, laid out as in Lays, with timestamps of the ages in Ages
Webhooks(Evs, E, Sigs, Lays, Ages) ==
  \/ \E i \in Slots, ev \in Evs, x \in ApixIds, e \in E, p \in PlanInputs,
        stale \in Ages, how \in Sigs, layout \in Lays :
       WebhookDelivery(i, ev, x, e, p, stale, how, layout)
  \/ \E i \in Slots : WebhookMarkProcessed(i)
  \/ \E i \in Slots : WebhookFailed(i)

\* the cases of the switch of handleApixWebhook
SubscribedEvent == \E i \in Slots : WebhookSubscribed(i)

PlanChangedEvent == \E i \in Slots : WebhookPlanChanged(i)

CancelledEvent == \E i \in Slots : WebhookCancelled(i)

UnknownEvent == \E i \in Slots : WebhookUnknown(i)

MeteredRoute ==
  \/ \E i \in Slots, raw \in KeyInputs : RequestMetered(i, raw)
  \/ \E i \in Slots : rateLimiter(i)
  \/ \E i \in Slots : analyzePath(i)

UsageTracking ==
  \/ \E i \in Slots, raw \in KeyInputs : RequestUnrouted(i, raw)
  \/ \E i \in Slots : trackQuota(i)
  \/ \E i \in Slots : trackRate(i)
  \/ \E i \in Slots : incrementUserUsage(i)
  \/ \E i \in Slots : incrementKeyUsage(i)
  \/ \E i \in Slots : logApiCall(i)
  \/ \E i \in Slots : addUsageHeaders(i)

KeyManagement ==
  \/ \E i \in Slots, raw \in KeyInputs : RequestNewKey(i, raw)
  \/ \E i \in Slots : generateNewApiKey(i)
  \/ \E i \in Slots, raw \in KeyInputs, k \in KeyIds : RequestRevoke(i, raw, k)
  \/ \E i \in Slots : deleteApiKey(i)

\* the two statements of cancelUserSubscription
CancelStatements ==
  \/ \E i \in Slots : cancelSubscriptionRows(i)
  \/ \E i \in Slots : cancelUserRow(i)

Cancellation ==
  \/ \E i \in Slots, raw \in KeyInputs : RequestCancel(i, raw)
  \/ CancelStatements

PlanChange ==
  \/ \E i \in Slots, raw \in KeyInputs, p \in PlanInputs : RequestPlan(i, raw, p)
  \/ \E i \in Slots : updatePlanSubscription(i)
  \/ \E i \in Slots : updatePlanUser(i)

Renewal ==
  \/ \E i \in Slots : WebhookRenewed(i)
  \/ \E i \in Slots : handleSubscriptionRenewed(i)

\* traversals of the flow graph engine, one at a time
Traversal ==
  \/ /\ walk.pc = "idle"
     /\ \E dir \in Directions, a \in Addresses, d \in DepthInputs,
           T \in Ledgers : buildPath(dir, a, d, T)
  \/ exploreEnter
  \/ exploreLoop
  \/ walkReturn

\* assessments of the risk engine
RiskScoring ==
  \/ \E a \in RiskAddresses, found \in Findings : assessRisk(a, found)
  \/ \E a \in RiskAddresses : riskCacheExpired(a)

\* calls of the upstream adapter
Upstream ==
  \/ \E g \in TxSignatures, reply \in UpstreamReplies : getTransaction(g, reply)
  \/ \E g \in TxSignatures : txCacheExpired(g)

\* calls of the intent client
IntentPrediction ==
  \/ \E g \in TxSignatures, reply \in ClassifierReplies : predictIntent(g, reply)
  \/ \E g, h \in TxSignatures, r1, r2 \in ClassifierReplies :
        predictBatch(g, h, r1, r2)
  \/ \E g \in TxSignatures : intentCacheExpired(g)

\* transactions the token-activity analysis classifies
Classification ==
  \E tx \in EnhancedTxs, tokenMint \in TargetMints : classify(tx, tokenMint)

\* searches for circular flows
CycleDetection ==
  \/ /\ cyc.pc = "idle"
     /\ \E a \in SmallAddresses, T \in CycleLedgers, bundled \in BOOLEAN,
           order \in Orders : detectCircularFlows(a, T, bundled, order)
  \/ dfsEnter
  \/ dfsLoop
  \/ cyclesReturn


\* proximity checks
Proximity ==
  \/ /\ prox.pc = "idle"
     /\ \E check \in ProximityChecks, a \in SmallAddresses,
           T \in ProximityLedgers, listed \in SUBSET ListedAddresses,
           order \in Orders : proximityCall(check, a, T, listed, order)
  \/ checkMixerProximity
  \/ checkSanctionedProximity
  \/ proximityReturn


\* lookups and writes of entities
Entities ==
  \/ \E a \in EntityAddresses : identifyEntity(a)
  \/ \E a \in EntityAddresses, value \in RiskValues :
       saveEntity(Entity(a, "exchange", value))
  \/ \E a \in EntityAddresses, value \in RiskValues : flagEntityAsRisky(a, value)
  \/ \E a \in EntityAddresses, value \in RiskValues : saveRiskAssessment(a, value)
  \/ \E a \in EntityAddresses : entityKvExpired(a)


\* requests that reach getLimiter of the small table
TableUse ==
  \E h \in TableKeys, points \in TablePoints : getLimiterSmall(h, points)


\* calls of processTransaction, on two clients
Ingestion ==
  \/ \E c \in IngestCalls, g \in IngestSignatures, fails \in IngestFailures :
       processBegin(c, g, fails)
  \/ \E c \in IngestCalls : processInsert(c)
  \/ \E c \in IngestCalls : processTransfers(c)
  \/ \E c \in IngestCalls : processEntities(c)
  \/ \E c \in IngestCalls : processEnd(c)


\* operations of the indexer
Indexing ==
  \/ /\ indexer.isRunning \/ \E l \in IndexLoops : indexer.loops[l] = "none"
     /\ startIndexing
  \/ \E l \in IndexLoops : loopTest(l)
  \/ \E l \in IndexLoops, outcome \in BatchOutcomes : loopBatch(l, outcome)
  \/ stop
  \/ initialize


Next ==
  \/ Responses
  \/ Registration(Emails)
  \/ Webhooks(AllEvents, Emails, Signatures, Layouts, BOOLEAN)
  \/ SubscribedEvent
  \/ PlanChangedEvent
  \/ CancelledEvent
  \/ UnknownEvent
  \/ MeteredRoute
  \/ UsageTracking
  \/ KeyManagement
  \/ Cancellation
  \/ PlanChange
  \/ Renewal
  \/ Tick
  \/ NextMonth
  \/ KvDown
  \/ KvUp
  \/ Traversal
  \/ RiskScoring
  \/ Upstream
  \/ IntentPrediction
  \/ Classification
  \/ CycleDetection
  \/ Proximity
  \/ Entities
  \/ TableUse
  \/ Ingestion
  \/ Indexing

Spec == Init /\ [][Next]_vars

(***************************************************************************)
(* The parts of the system the properties below are about, each a          *)
(* specification of its own: the tables and the requests are the same,     *)
(* the operations are those that bear on the property.                     *)
(***************************************************************************)
\* the store is connected and stays so
InitConnected == Init /\ kvUp

\* deliveries the sender signed over the text it sends, in the compact
\* layout, with a fresh timestamp
Delivered(Evs) == Webhooks(Evs, OneEmail, {"raw"}, {"compact"}, {FALSE})

\* the tenant lifecycle: registrations, the four webhook events, plan
\* updates and cancellations
NextLifecycle ==
  \/ Responses
  \/ Registration(OneEmail)
  \/ Delivered(EventTypes)
  \/ SubscribedEvent
  \/ PlanChangedEvent
  \/ CancelledEvent
  \/ Cancellation
  \/ PlanChange
  \/ Renewal
  \/ NextMonth

SpecLifecycle == InitConnected /\ [][NextLifecycle]_vars

\* metering: the analysis routes and the usage-tracking middleware
NextMetering ==
  \/ Responses
  \/ Registration(OneEmail)
  \/ MeteredRoute
  \/ UsageTracking
  \/ Tick

SpecMetering == InitConnected /\ [][NextMetering]_vars

\* rate limiting of the analysis routes while plans change and time passes
NextRateLimit ==
  \/ Responses
  \/ Registration(OneEmail)
  \/ MeteredRoute
  \/ PlanChange
  \/ Tick

SpecRateLimit == InitConnected /\ [][NextRateLimit]_vars

\* the analysis routes while subscriptions are cancelled and the store
\* comes and goes
NextDegraded ==
  \/ Responses
  \/ Registration(OneEmail)
  \/ MeteredRoute
  \/ Cancellation
  \/ KvDown
  \/ KvUp

SpecDegraded == Init /\ [][NextDegraded]_vars

\* authentication while keys are issued, used and revoked
NextKeys ==
  \/ Responses
  \/ Registration(OneEmail)
  \/ KeyManagement
  \/ UsageTracking

SpecKeys == InitConnected /\ [][NextKeys]_vars

\* accounts made by the register route and by user.subscribed deliveries,
\* with both email addresses
NextSubscribe ==
  \/ Responses
  \/ Registration(Emails)
  \/ Webhooks({"user.subscribed"}, Emails, {"raw"}, {"compact"}, {FALSE})
  \/ SubscribedEvent

SpecSubscribe == InitConnected /\ [][NextSubscribe]_vars

\* the three ways a key is issued: registration, user.subscribed, and
\* POST /api/v1/users/keys
NextIssue ==
  \/ Responses
  \/ Registration(OneEmail)
  \/ Delivered({"user.subscribed"})
  \/ SubscribedEvent
  \/ KeyManagement

SpecIssue == InitConnected /\ [][NextIssue]_vars

\* keys of two users issued and revoked while the clock advances
NextRevoke ==
  \/ Responses
  \/ Registration(Emails)
  \/ KeyManagement
  \/ Tick

SpecRevoke == InitConnected /\ [][NextRevoke]_vars

\* traversals of the flow graph engine
SpecFlow == InitConnected /\ [][Traversal]_vars

\* the risk engine
SpecRisk == InitConnected /\ [][RiskScoring]_vars

\* the upstream adapter and the clock
NextUpstream ==
  \/ Upstream
  \/ Tick

SpecUpstream == InitConnected /\ [][NextUpstream]_vars

\* the intent client
SpecIntent == InitConnected /\ [][IntentPrediction]_vars

\* the transaction-type classifier
SpecClassify == InitConnected /\ [][Classification]_vars

\* cycle detection
SpecCycles == InitConnected /\ [][CycleDetection]_vars


\* the searches of the flow engine, one call at a time, each running to
\* its end: every await of a search resolves
NextSearch ==
  \/ /\ cyc.pc = "idle"
     /\ Traversal
  \/ /\ walk.pc = "idle"
     /\ CycleDetection

SpecSearch ==
  /\ InitConnected
  /\ [][NextSearch]_vars
  /\ WF_vars(exploreEnter)
  /\ WF_vars(exploreLoop)
  /\ WF_vars(dfsEnter)
  /\ WF_vars(dfsLoop)


\* the proximity checks
SpecProximity == InitConnected /\ [][Proximity]_vars


\* the entity registry
SpecEntities == InitConnected /\ [][Entities]_vars


\* the small limiter table and the clock
NextTable ==
  \/ TableUse
  \/ Tick
  \/ NextMonth

SpecTable == InitConnected /\ [][NextTable]_vars


\* ingestion
SpecIngest == InitConnected /\ [][Ingestion]_vars


\* the indexer
SpecIndexer == InitConnected /\ [][Indexing]_vars


\* renewals with two tenants: one known to the sender of the webhooks, one
\* registered through the REST route, and months passing
NextRenewal ==
  \/ Responses
  \/ Registration(Emails)
  \/ Delivered({"user.subscribed", "user.renewed"})
  \/ SubscribedEvent
  \/ Renewal
  \/ NextMonth

SpecRenewal == InitConnected /\ [][NextRenewal]_vars


\* the webhook endpoint alone: deliveries of two known event types and of
\* an unknown one, with every kind of signature, layout and age
NextWebhook ==
  \/ Responses
  \/ Webhooks({"user.subscribed", "user.cancelled"} \cup UnknownEvents,
              OneEmail, Signatures, Layouts, BOOLEAN)
  \/ SubscribedEvent
  \/ CancelledEvent
  \/ UnknownEvent
  \/ Creation
  \/ CancelStatements

SpecWebhook == InitConnected /\ [][NextWebhook]_vars

(***************************************************************************)
(* Properties of the tenant lifecycle (SpecLifecycle).                     *)
(***************************************************************************)
\* a request that has been answered and is about to leave
Done(i) == reqs[i].pc = "done"

\* C8: after any sequence and interleaving of registrations, webhook
\* events, plan updates and cancellations, no user has more than one
\* subscription row with status = active.
C8_OneActiveSubscription ==
  \A u \in UserIds : Cardinality(ActiveSubs(u)) <= 1

\* C8 happens: createUser refused a second account for a known email while
\* the first account holds its active subscription
C8_Witness ==
  \E i \in Slots :
    /\ Done(i)
    /\ reqs[i].kind = "wh_subscribed"
    /\ reqs[i].plan \in PlanNames
    /\ reqs[i].status = 500
    /\ ~reqs[i].handled
    /\ \E u \in getUserByEmail(reqs[i].email) : Cardinality(ActiveSubs(u.id)) = 1

\* C9: user.status mirrors the subscription: in every reachable state
\* user.status is active exactly when the user has an active subscription
\* row, and after a cancellation the user has no active subscription and
\* user.status is cancelled.
C9_StatusMirrorsSubscription ==
  /\ \A u \in users : (u.status = "active") <=> (ActiveSubs(u.id) # {})
  /\ \A i \in Slots :
       (Done(i) /\ reqs[i].kind \in {"cancel", "wh_cancelled"} /\
        (reqs[i].status = 200 \/ reqs[i].handled))
         => /\ ActiveSubs(reqs[i].uid) = {}
            /\ UserRow(reqs[i].uid).status = "cancelled"

\* C10: a plan change is atomic: carried out (answered with success, or,
\* for the webhook, gone through to the end of its handler), the user's active
\* subscription has the new plan with the catalog's quota and rate limit
\* and user.plan is the new plan; answered with a failure, neither the
\* subscription nor user.plan has changed.
C10_PlanChangeAtomic ==
  \A i \in Slots :
    (Done(i) /\ reqs[i].kind \in {"plan", "wh_plan_changed"} /\
     reqs[i].uid # NULL)
      => IF reqs[i].status = 200 \/ reqs[i].handled THEN reqs[i].okAtEnd
         ELSE ~reqs[i].wroteSubs /\ ~reqs[i].wroteUser

\* C9 at its plainest: one request alone, between the two statements of
\* cancelUserSubscription
C9_BetweenStatements ==
  \E i \in Slots :
    /\ reqs[i].pc = "cancel_user"
    /\ \A j \in Slots \ {i} : reqs[j].pc = "idle"
    /\ UserRow(reqs[i].uid).status = "active"
    /\ ActiveSubs(reqs[i].uid) = {}

\* C10 at its plainest: a plan change for a user who had no active
\* subscription when the request arrived is answered 500 and has changed
\* user.plan
C10_FailedChangeWroteUser ==
  \E i \in Slots :
    /\ Done(i)
    /\ reqs[i].kind = "plan"
    /\ ~reqs[i].arrSubActive
    /\ reqs[i].status = 500
    /\ reqs[i].wroteUser
    /\ \A j \in Slots \ {i} : reqs[j].pc = "idle"

(***************************************************************************)
(* Properties of metering (SpecMetering).                                  *)
(***************************************************************************)
\* C1: an authenticated request to a metered endpoint that arrives while
\* the tenant's active subscription has currentUsage >= monthlyQuota is
\* answered 429 "Quota exceeded" with resetDate = billingPeriodEnd, and the
\* endpoint handler is not run.
C1_OverQuotaRejected ==
  \A i \in Slots :
    (Done(i) /\ reqs[i].kind = "metered" /\ reqs[i].arrOver)
      => /\ reqs[i].status = 429
         /\ reqs[i].error = "Quota exceeded"
         /\ reqs[i].resetDate = reqs[i].arrEnd
         /\ ~reqs[i].handlerRan

\* C1 at its plainest: the handler has answered 200 to a request that
\* arrived over quota, with no other request in flight
C1_OverQuotaServed ==
  \E i \in Slots :
    /\ Done(i)
    /\ reqs[i].kind = "metered"
    /\ reqs[i].arrOver
    /\ reqs[i].handlerRan
    /\ reqs[i].status = 200
    /\ \A j \in Slots \ {i} : reqs[j].pc = "idle"

\* C2: under any interleaving of concurrent authorized requests of one
\* tenant, the number of requests admitted by the quota check during one
\* billing period never exceeds monthlyQuota.
C2_AdmittedWithinQuota ==
  \A u \in UserIds : ActiveSubs(u) # {} => admitted[u] <= QuotaOf(u)

\* C5: a request to a metered endpoint that passed authentication, was
\* within quota and passed the rate check has, once it is over, increased
\* the subscription's currentUsage by exactly 1 and the key's totalCalls by
\* exactly 1.
C5_AdmittedIsCounted ==
  \A i \in Slots :
    (Done(i) /\ reqs[i].kind = "metered" /\ reqs[i].arrSubActive /\
     ~reqs[i].arrOver /\ reqs[i].rlOut = "admitted")
      => reqs[i].cntUser = 1 /\ reqs[i].cntKey = 1

(***************************************************************************)
(* Properties of the analysis routes when subscriptions are cancelled and  *)
(* the store is away (SpecDegraded).                                       *)
(***************************************************************************)
\* C3: a request that presents the API key of a user whose subscription is
\* not active to a metered endpoint is rejected with 401 "Subscription
\* inactive", and the endpoint handler does not run.
C3_InactiveRejected ==
  \A i \in Slots :
    (Done(i) /\ reqs[i].kind = "metered" /\ reqs[i].keyActive /\
     ~reqs[i].arrSubActive)
      => /\ reqs[i].status = 401
         /\ reqs[i].error = "Subscription inactive"
         /\ ~reqs[i].handlerRan

\* C7: while the KV store is unavailable a request within the key's
\* per-minute limit is admitted and a request beyond it is rejected with
\* 429.
C7_LimitedWithoutStore ==
  \A i \in Slots :
    (Done(i) /\ reqs[i].kind = "metered" /\ reqs[i].rlOut # "none" /\
     reqs[i].kvDown /\ reqs[i].arrSubActive)
      => IF reqs[i].winBefore < reqs[i].rate
           THEN reqs[i].rlOut = "admitted"
           ELSE reqs[i].rlOut = "rejected" /\ reqs[i].status = 429

(***************************************************************************)
(* Properties of the rate limiter (SpecRateLimit).                         *)
(***************************************************************************)
\* C6: for every API key, a request is admitted past the rate limiter only
\* if, with it, at most rateLimitPerMinute requests presenting the key have
\* been admitted in the last 60 seconds; a request that is not admitted is
\* rejected with 429 "Rate limit exceeded" and a retry-after in seconds.
\* rateLimitPerMinute is taken as the larger of the limit the request was
\* authenticated with and the limit of the subscription when the request
\* reached the limiter, so that a plan change in flight is not held
\* against the limiter.
C6_WindowWithinLimit ==
  \A i \in Slots :
    (reqs[i].kind = "metered" /\ reqs[i].rlOut # "none")
      => /\ reqs[i].rlOut \in {"admitted", "rejected"}
         /\ reqs[i].rlOut = "admitted" => reqs[i].winCount <= reqs[i].limit
         /\ reqs[i].rlOut = "rejected"
              => /\ reqs[i].status = 429
                 /\ reqs[i].error = "Rate limit exceeded"
                 /\ reqs[i].retryAfter \in 1..Duration

(***************************************************************************)
(* Properties of authentication (SpecKeys).                                *)
(***************************************************************************)
\* the routes behind authenticateApiKey
AuthedKinds == {"metered", "unrouted", "newkey", "revoke", "cancel", "plan"}

\* C4: a request goes past authentication, with a user context, only if
\* its x-api-key value hashed to an active api_keys row when it was looked
\* up; a request with a missing, unknown or revoked key is answered 401
\* with no user context and no handler run; and a revoked key is never
\* active again, whatever operations follow.
C4_OnlyActiveKeys ==
  /\ \A i \in Slots :
       reqs[i].kind \in AuthedKinds
         => IF reqs[i].keyActive /\ ~reqs[i].keyRevoked /\ reqs[i].key # 0
              THEN reqs[i].uid # NULL
              ELSE /\ Done(i)
                   /\ reqs[i].status = 401
                   /\ reqs[i].uid = NULL
                   /\ ~reqs[i].handlerRan /\ ~reqs[i].tracked
                   /\ reqs[i].target = 0 \/ reqs[i].kind = "revoke"
  /\ \A k \in apiKeys : k.key_hash \in revoked => ~k.active

\* C4 happens: a key that was revoked is presented again and refused,
\* while the user's other key is still active
C4_Witness ==
  \E i \in Slots :
    /\ Done(i)
    /\ reqs[i].kind \in AuthedKinds
    /\ reqs[i].keyRevoked
    /\ reqs[i].status = 401
    /\ \E k \in apiKeys : k.active /\ k.total_calls > 0

(***************************************************************************)
(* Properties of the webhook events (SpecLifecycle, SpecSubscribe,         *)
(* SpecWebhook).                                                           *)
(***************************************************************************)
\* C11: after a user.renewed event for a known user has been handled, that
\* user has an active subscription (also when it was cancelled before the
\* event), the subscription's usage count is 0 and its billing period has
\* advanced by one month.
C11_RenewalRestarts ==
  \A i \in Slots :
    (reqs[i].kind = "wh_renewed" /\ reqs[i].handled) => reqs[i].okAtEnd

\* C11 at its plainest: one delivery alone, for a user whose subscription
\* was cancelled before it, has run reset_monthly_usage() and the user has
\* no active subscription
C11_CancelledStaysCancelled ==
  \E i \in Slots :
    /\ reqs[i].kind = "wh_renewed"
    /\ reqs[i].handled
    /\ ~reqs[i].arrSubActive
    /\ ActiveSubs(reqs[i].uid) = {}
    /\ \A j \in Slots \ {i} : reqs[j].pc = "idle"

\* C12: delivering the same user.subscribed event more than once (a
\* duplicate, a concurrent duplicate, a retry after a failed attempt) ends
\* as one successful delivery does: there is never more than one user for
\* an external user id, that user has one active subscription and one
\* active key, and a delivery that created the account or found it leaves
\* exactly one user for its external user id.
C12_OneAccountPerSubscriber ==
  /\ \A x \in ApixIds :
       /\ Cardinality(getUserByApixId(x)) <= 1
       /\ \A u \in getUserByApixId(x) :
            /\ Cardinality(ActiveSubs(u.id)) = 1
            /\ Cardinality({k \in apiKeys : k.user_id = u.id /\ k.active}) = 1
  /\ \A i \in Slots :
       (reqs[i].kind = "wh_subscribed" /\
        (reqs[i].handled \/ (Done(i) /\ reqs[i].status = 200)))
         => Cardinality(getUserByApixId(reqs[i].apix)) = 1

\* C12 happens: of two concurrent deliveries for one external user id with
\* two email addresses, the later createUser was refused by the unique
\* constraint, and the one account is there
C12_Witness ==
  \E i \in Slots :
    /\ Done(i)
    /\ reqs[i].kind = "wh_subscribed"
    /\ reqs[i].message = "duplicate key"
    /\ getUserByEmail(reqs[i].email) = {}
    /\ Cardinality(getUserByApixId(reqs[i].apix)) = 1

RawKeys == KeyIds

\* request i has issued a raw key: registerUser and generateNewApiKey
\* answer with it, handleUserSubscribed holds it while it goes on
Issued(i) ==
  \/ reqs[i].kind \in {"register", "newkey"} /\ Done(i) /\ reqs[i].status = 201
  \/ reqs[i].kind = "wh_subscribed" /\ reqs[i].handled

IssuedKey(i) ==
  IF reqs[i].kind = "wh_subscribed" THEN reqs[i].target ELSE reqs[i].shown

WebhookKinds ==
  {"wh_subscribed", "wh_plan_changed", "wh_cancelled", "wh_renewed",
   "wh_unknown"}

DocOf(i) ==
  Document(reqs[i].event, reqs[i].apix, reqs[i].email, reqs[i].plan,
           reqs[i].stale)

TextOf(i) == BodyText(DocOf(i), reqs[i].form)

\* the header of request i is the digest of the text received
SignedOverText(i) ==
  SignatureHeader(reqs[i].sig, TextOf(i)) = hmacHex(WebhookSecret, TextOf(i))

Delivery(i) == reqs[i].kind \in WebhookKinds /\ reqs[i].pc # "idle"

\* verifyWebhookSignature has answered request i itself
Refused(i) ==
  /\ Done(i)
  /\ reqs[i].error \in {"Missing webhook signature", "Invalid webhook signature",
                        "Signature verification failed",
                        "Webhook configuration error"}

\* the webhook_events rows of the delivery of request i
RowsOf(i) ==
  {e \in events : e.event_type = reqs[i].event /\ e.payload = reqs[i].apix}

\* C16: a webhook handler runs only for a POST whose x-webhook-signature
\* header equals hex(HMAC-SHA256(webhookSecret, rawBody)) of the body
\* received: a delivery with a missing or different signature is refused
\* by the verification, having written nothing.
C16_HandlerOnlyWhenSigned ==
  \A i \in Slots :
    (Delivery(i) /\ ~SignedOverText(i)) => Refused(i) /\ ~reqs[i].recorded

\* C16 at its plainest: one delivery alone whose header is not the digest
\* of the text received has been recorded and is on its way to its handler
C16_AcceptedOtherDigest ==
  \E i \in Slots :
    /\ reqs[i].pc = "wh_recv"
    /\ reqs[i].sig = "canonical" /\ reqs[i].form = "spaced"
    /\ ~SignedOverText(i)
    /\ reqs[i].recorded
    /\ RowsOf(i) # {}
    /\ \A j \in Slots \ {i} : reqs[j].pc = "idle"

\* C17: every webhook POST with a missing signature, or with a signature
\* of any length and content that does not match the expected HMAC, is
\* answered 401.
C17_BadSignature401 ==
  \A i \in Slots :
    (Done(i) /\ reqs[i].kind \in WebhookKinds /\
     reqs[i].sig \in {"none", "forged", "short"})
      => reqs[i].status = 401

\* C17 at its plainest: a delivery whose signature has not the length of a
\* digest is answered 500
C17_ShortSignature500 ==
  \E i \in Slots :
    /\ Done(i)
    /\ reqs[i].kind \in WebhookKinds
    /\ reqs[i].sig = "short"
    /\ reqs[i].status = 500
    /\ reqs[i].error = "Signature verification failed"

\* C18: a correctly signed webhook whose timestamp is more than five
\* minutes in the past is rejected with a 4xx and changes no user,
\* subscription or key state.
C18_StaleRejected ==
  \A i \in Slots :
    (Delivery(i) /\ reqs[i].stale /\ reqs[i].sig \in {"raw", "canonical"})
      => /\ Done(i)
         /\ reqs[i].status >= 400 /\ reqs[i].status < 500
         /\ ~reqs[i].handled

\* C18 at its plainest: a user.subscribed delivery with a stale timestamp
\* has made an account
C18_ReplayMadeAccount ==
  \E i \in Slots :
    /\ reqs[i].kind = "wh_subscribed"
    /\ reqs[i].stale
    /\ reqs[i].handled
    /\ reqs[i].wroteUser
    /\ \E u \in users : u.id = reqs[i].uid

\* C19: every received webhook event is recorded in webhook_events before
\* its handler runs, and the row's processed flag is true exactly when the
\* handler completed successfully: true after a successful handler; after
\* a handler failure false with error_message set and the response a 5xx.
C19_ProcessedFollowsHandler ==
  \A i \in Slots :
    (Delivery(i) /\ ~Refused(i)) =>
      /\ reqs[i].recorded /\ RowsOf(i) # {}
      /\ (Done(i) /\ reqs[i].handled)
           => /\ \E e \in RowsOf(i) : e.processed
              /\ reqs[i].status \in {200, 201}
      /\ (Done(i) /\ ~reqs[i].handled /\ reqs[i].message # "")
           => /\ \E e \in RowsOf(i) : ~e.processed /\ e.error_message # ""
              /\ reqs[i].status >= 500

\* C19 at its plainest: one user.cancelled delivery alone, whose handler
\* has cancelled the subscription, is answered 500 and no row of the event
\* is processed
C19_HandledNotProcessed ==
  \E i \in Slots :
    /\ Done(i)
    /\ reqs[i].kind = "wh_cancelled"
    /\ reqs[i].handled
    /\ ActiveSubs(reqs[i].uid) = {}
    /\ reqs[i].status = 500
    /\ \A e \in RowsOf(i) : ~e.processed
    /\ \A j \in Slots \ {i} : reqs[j].pc = "idle"

\* C20: a correctly signed webhook whose event type is not one of
\* user.subscribed, user.plan_changed, user.cancelled, user.renewed is
\* answered 400 UnknownEvent and changes no tenant state.
C20_UnknownEvent400 ==
  \A i \in Slots :
    (Done(i) /\ reqs[i].kind = "wh_unknown" /\ ~Refused(i))
      => /\ reqs[i].status = 400
         /\ reqs[i].error = "UnknownEvent"
         /\ ~reqs[i].wroteUser /\ ~reqs[i].wroteSubs /\ ~reqs[i].wroteKeys

\* C20 at its plainest: a delivery of an unknown event type is answered 200
C20_UnknownAnswered200 ==
  \E i \in Slots :
    /\ Done(i)
    /\ reqs[i].kind = "wh_unknown"
    /\ reqs[i].event \notin EventTypes
    /\ reqs[i].status = 200
    /\ reqs[i].error = ""

(***************************************************************************)
(* Revocation.                                                             *)
(***************************************************************************)
\* a revoke request that is over, whose key id names a row of its own user
OwnRevoke(i) ==
  /\ Done(i)
  /\ reqs[i].kind = "revoke"
  /\ reqs[i].uid # NULL
  /\ reqs[i].rowsBefore # {}
  /\ \A k \in reqs[i].rowsBefore : k.user_id = reqs[i].uid

\* a revoke request that is over, whose key id names a row of another user
ForeignRevoke(i) ==
  /\ Done(i)
  /\ reqs[i].kind = "revoke"
  /\ reqs[i].uid # NULL
  /\ reqs[i].rowsBefore # {}
  /\ \A k \in reqs[i].rowsBefore : k.user_id # reqs[i].uid

\* C21: revoking a key that is already revoked is answered with success
\* and changes nothing: the row is the same after the request as before
\* it, active false and revoked_at the time of the first revocation.
C21_RevokeAgainNoop ==
  \A i \in Slots :
    (OwnRevoke(i) /\ \A k \in reqs[i].rowsBefore : ~k.active) =>
      /\ reqs[i].status = 200
      /\ reqs[i].rowsAfter = reqs[i].rowsBefore

\* the second revocation of a key succeeded and moved its revoked_at
C21_SecondRevokeMovedTime ==
  \E i \in Slots :
    /\ OwnRevoke(i)
    /\ reqs[i].status = 200
    /\ \E b \in reqs[i].rowsBefore, a \in reqs[i].rowsAfter :
         /\ ~b.active /\ ~a.active
         /\ b.revoked_at # NULL
         /\ a.revoked_at > b.revoked_at

\* C22: a revoke request of one user for a key of another user is answered
\* 404 and leaves that key as it was; if it was active it is still active
\* and still accepted by the authentication lookup.
C22_ForeignKeyUntouched ==
  \A i \in Slots :
    ForeignRevoke(i) =>
      /\ reqs[i].status = 404
      /\ reqs[i].rowsAfter = reqs[i].rowsBefore
      /\ reqs[i].rowsBefore \subseteq apiKeys
      /\ \A k \in reqs[i].rowsBefore :
           k.active => AuthLookup(k.key_hash) # {}

\* C22 happens: a user asked to revoke the active key of another user
C22_Witness ==
  \E i \in Slots :
    /\ ForeignRevoke(i)
    /\ reqs[i].status = 404
    /\ \E k \in reqs[i].rowsBefore :
         /\ k.active
         /\ k \in apiKeys
         /\ AuthLookup(k.key_hash) # {}

(***************************************************************************)
(* Usage headers.                                                          *)
(***************************************************************************)
\* C23: every response to a request that passed authentication, a success
\* or a rejection, carries the three X-RateLimit headers and the three
\* X-Quota headers.
C23_UsageHeadersOnEveryResponse ==
  \A i \in Slots :
    (Done(i) /\ reqs[i].kind \in AuthedKinds /\ reqs[i].uid # NULL
       /\ reqs[i].status # 0) =>
      (RateLimitHeaders \cup QuotaHeaders) \subseteq reqs[i].headers

\* a request of a user with an active subscription went through
\* addUsageHeaders and was answered before the headers were set
C23_HeadersSetTooLate ==
  \E i \in Slots :
    /\ Done(i)
    /\ reqs[i].kind = "unrouted"
    /\ reqs[i].tracked
    /\ reqs[i].pend = {}
    /\ ActiveSubs(reqs[i].uid) # {}
    /\ reqs[i].status = 404
    /\ reqs[i].headers = {}

(***************************************************************************)
(* Path analysis.                                                          *)
(***************************************************************************)
\* a forward traversal from address 1 that has returned, over the chain
\* 1 -> 2 -> ... -> n, with fewer transfers than maxDepth
ChainWalked(n) ==
  /\ walk.pc = "returned"
  /\ walk.dir = "forward"
  /\ walk.start = 1
  /\ walk.transfers = Chain(n)
  /\ n - 1 < walk.maxDepth

HopAddresses(path) == [k \in 1..Len(path.hops) |-> path.hops[k].address]

\* C24: a forward traversal of a chain of n - 1 transfers, fewer than
\* maxDepth, returns exactly one path; it starts at the start address, its
\* hops are the start address followed by the others in order, hopCount is
\* n and totalAmount the sum over the n hops (each of amount 1 here).
C24_ChainGivesOnePathFromStart ==
  \A n \in 2..MaxAddresses :
    ChainWalked(n) =>
      /\ Len(walk.paths) = 1
      /\ walk.paths[1].startAddress = walk.start
      /\ HopAddresses(walk.paths[1]) = [k \in 1..n |-> k]
      /\ walk.paths[1].hopCount = n
      /\ walk.paths[1].totalAmount = n

\* the chain of five addresses gave one path that leaves the start address
\* out: four hops from 2 to 5, totalAmount 4
C24_PathWithoutStart ==
  /\ ChainWalked(5)
  /\ walk.maxDepth = 5
  /\ Len(walk.paths) = 1
  /\ walk.paths[1].startAddress = 2
  /\ HopAddresses(walk.paths[1]) = <<2, 3, 4, 5>>
  /\ walk.paths[1].hopCount = 4
  /\ walk.paths[1].totalAmount = 4

\* C25: a forward traversal from an address on the cycle 1 -> 2 -> 3 -> 1
\* returns at least one path, for every maxDepth from 1 to 10.
C25_CycleGivesPath ==
  (/\ walk.pc = "returned"
   /\ walk.dir = "forward"
   /\ walk.transfers = Cycle
   /\ walk.start \in SmallAddresses
   /\ walk.maxDepth \in DepthInputs) => Len(walk.paths) >= 1

\* the traversal of the cycle came back to its start address below
\* maxDepth and returned no path
C25_CycleGaveNothing ==
  /\ walk.pc = "returned"
  /\ walk.dir = "forward"
  /\ walk.transfers = Cycle
  /\ walk.start = 1
  /\ walk.maxDepth = 5
  /\ walk.paths = <<>>

\* the addresses of the calls that are past their entry and have not
\* returned
OnStack(w) ==
  {w.stack[k].address : k \in {k \in 1..Len(w.stack) : w.stack[k].stage = "loop"}}

\* C30: during a traversal the visited set is the set of addresses on the
\* recursion stack, and it is empty when the traversal returns.
C30_VisitedIsTheStack ==
  walk.pc \in {"running", "returned"} => walk.visited = OnStack(walk)

\* a traversal returned with the leaves it reached still in the visited
\* set
C30_LeafLeftVisited ==
  /\ walk.pc = "returned"
  /\ walk.stack = <<>>
  /\ walk.visited # {}
  /\ \A a \in walk.visited : Expanded(walk, a) = {}

(***************************************************************************)
(* Risk assessments.                                                       *)
(***************************************************************************)
\* the weight of a flag in the stated rule
FlagWeight(type) ==
  CASE type = "sanctioned_proximity" -> 50
    [] type = "mixer_proximity" -> 40
    [] type = "peel_chain" -> 35
    [] type = "circular_flow" -> 25
    [] type = "high_velocity" -> 20
    [] OTHER -> 0

RECURSIVE SumWeights(_)
SumWeights(flags) ==
  IF flags = <<>> THEN 0
  ELSE FlagWeight(Head(flags)) + SumWeights(Tail(flags))

FlagTypes(a) == {a.flags[k] : k \in 1..Len(a.flags)}

ScoreFollowsFlags(a) ==
  IF "sanctioned_direct" \in FlagTypes(a) THEN a.riskScore = 100
  ELSE a.riskScore = Max(0, Min(SumWeights(a.flags), 100))

\* the assessments returned, cached and saved
Assessments ==
  ({risk.out} \cup {risk.cache[a] : a \in RiskAddresses}
     \cup {risk.saved[a] : a \in RiskAddresses}) \ {NoAssessment}

\* C26: every assessment returned, cached or saved has riskScore 100 when
\* its flags contain sanctioned_direct, and otherwise the sum of the
\* weights of its flags clamped to [0, 100].
C26_ScoreFollowsFlags == \A a \in Assessments : ScoreFollowsFlags(a)

\* C26 happens: an assessment whose weights sum to more than 100 was
\* returned with score 100 and no direct hit and is in the cache, and one
\* with a direct hit is saved
C26_Witness ==
  /\ "sanctioned_direct" \notin FlagTypes(risk.out)
  /\ SumWeights(risk.out.flags) > 100
  /\ risk.out.riskScore = 100
  /\ \E a \in RiskAddresses : risk.cache[a] = risk.out
  /\ \E a \in RiskAddresses :
       /\ "sanctioned_direct" \in FlagTypes(risk.saved[a])
       /\ risk.saved[a].riskScore = 100


(***************************************************************************)
(* The upstream adapter.                                                   *)
(***************************************************************************)
\* a call that found nothing in the cache while the circuit should be open:
\* five upstream calls in a row had failed, the fifth less than 60 s before
DuringOpenCircuit(call) ==
  /\ call.signature # 0
  /\ ~call.cached
  /\ call.streakBefore >= FailureThreshold
  /\ call.sinceTrip # NULL
  /\ call.sinceTrip < OpenSeconds

\* C27: after 5 consecutive failed upstream calls, for the next 60 s a call
\* of getTransaction fails with UpstreamUnavailable and does not contact the
\* upstream
C27_OpenCircuitFailsFast ==
  DuringOpenCircuit(helius.last) =>
    /\ ~helius.last.contacted
    /\ helius.last.result = "UpstreamUnavailable"

\* the call right after the fifth failure went to the upstream and got its
\* error
C27_SixthCallReachedUpstream ==
  /\ DuringOpenCircuit(helius.last)
  /\ helius.last.streakBefore = FailureThreshold
  /\ helius.last.sinceTrip = 0
  /\ helius.last.contacted
  /\ helius.last.result = "threw"

(***************************************************************************)
(* The intent client.                                                      *)
(***************************************************************************)
\* the last call was a predictIntent whose POST to the classifier failed
PredictIntentFailed ==
  /\ ml.last.op = "predictIntent"
  /\ ml.last.failed[1]

\* C28: when the call to the classifier fails, predictIntent returns
\* {unknown, 0} instead of raising an error and writes nothing to the cache
C28_FailureReturnsUnknown ==
  PredictIntentFailed =>
    /\ ml.last.outcome = "returned"
    /\ ml.last.predictions = <<Unknown0>>
    /\ ml.cache = ml.last.cacheBefore

\* a predictIntent whose POST failed raised the error; the cache is as it
\* was, with no entry for the signature
C28_PredictIntentThrew ==
  /\ PredictIntentFailed
  /\ ml.last.outcome = "threw"
  /\ ml.cache = ml.last.cacheBefore
  /\ ml.cache[ml.last.signatures[1]] = Uncached


(***************************************************************************)
(* Transaction-type classification.                                        *)
(***************************************************************************)
Classified == activity.txType # ""

\* the rule as stated, applied in order: transfer when the tag is TRANSFER;
\* transfer when fewer than 2 significant mints are involved; swap when 2
\* or more are; unknown otherwise
StatedRule(tx) ==
  IF tx.type = "TRANSFER" THEN "transfer"
  ELSE IF Cardinality(significantMints(tx)) < 2 THEN "transfer"
  ELSE IF Cardinality(significantMints(tx)) >= 2 THEN "swap"
  ELSE "unknown"

\* the rule with its first two steps as the classifier has them: unknown
\* for a transaction without token transfers; transfer when the tag, in any
\* letter case, is TRANSFER or TOKEN_TRANSFER; then the count of the mints
TaggedTransfer(tx) ==
  toUpperCase(tx.type) \in {"TRANSFER", "TOKEN_TRANSFER"}

RuleOverTransfers(tx) ==
  IF Len(tx.tokenTransfers) = 0 THEN "unknown"
  ELSE IF TaggedTransfer(tx) THEN "transfer"
  ELSE IF Cardinality(significantMints(tx)) < 2 THEN "transfer"
  ELSE "swap"

\* C29 as stated: for every enhanced transaction and target mint the
\* classifier returns the result of the stated rule applied in order
C29_FollowsStatedRule ==
  Classified => activity.txType = StatedRule(activity.tx)

\* C29: a transaction without token transfers is classified unknown; any
\* other is a transfer when tagged TRANSFER or TOKEN_TRANSFER in any letter
\* case, a transfer when fewer than 2 significant mints are involved even if
\* tagged SWAP or carrying a swap event, and a swap otherwise
C29_FollowsRuleOverTransfers ==
  Classified => activity.txType = RuleOverTransfers(activity.tx)

\* a transaction tagged SWAP, with a swap event, moving one mint and a dust
\* amount of wrapped SOL, was classified a transfer
C29_SingleMintSwapIsTransfer ==
  /\ Classified
  /\ toUpperCase(activity.tx.type) = "SWAP"
  /\ activity.tx.swap
  /\ Len(activity.tx.tokenTransfers) = 2
  /\ \E k \in 1..2 : /\ activity.tx.tokenTransfers[k].mint = WRAPPED_SOL
                     /\ activity.tx.tokenTransfers[k].tokenAmount = Dust
  /\ Cardinality(significantMints(activity.tx)) = 1
  /\ activity.txType = "transfer"


(***************************************************************************)
(* Paths to the leaves.                                                    *)
(***************************************************************************)
Elements(s) == {s[k] : k \in 1..Len(s)}

\* the simple paths of transfers that extend p, a list of distinct
\* addresses, to a leaf by at most `more' transfers
RECURSIVE LeafPathsFrom(_, _, _)
LeafPathsFrom(T, p, more) ==
  LET last == p[Len(p)]
      next == {t.to : t \in {t \in T : t.from = last}}
  IN (IF next = {} /\ Len(p) > 1 THEN {p} ELSE {})
       \cup (IF more = 0 THEN {}
             ELSE UNION {LeafPathsFrom(T, Append(p, b), more - 1) :
                           b \in next \ Elements(p)})

\* the simple paths from the start address to a leaf that are shorter than
\* maxDepth
LeafPaths(w) == LeafPathsFrom(w.transfers, <<w.start>>, w.maxDepth - 1)

\* path number k of the traversal goes along p (with or without the start
\* address as its first hop)
Along(w, k, p) == HopAddresses(w.paths[k]) \in {p, Tail(p)}

\* C31: a forward traversal that has returned emitted, for every simple
\* path from the start address to a leaf that is shorter than maxDepth, a
\* path along it that ends at the leaf, also when several end at the same
\* leaf
C31_EveryLeafPathEmitted ==
  (/\ walk.pc = "returned"
   /\ walk.dir = "forward"
   /\ Cardinality(LeafPaths(walk)) <= PathsCap) =>
    \A p \in LeafPaths(walk) :
      \E k \in 1..Len(walk.paths) :
        /\ Along(walk, k, p)
        /\ walk.paths[k].endAddress = p[Len(p)]

\* the diamond 1 -> 2 -> 4, 1 -> 3 -> 4 walked from 1 gave the path through
\* 2 and no path through 3
C31_DiamondGaveOnePath ==
  /\ walk.pc = "returned"
  /\ walk.dir = "forward"
  /\ walk.start = 1
  /\ walk.transfers = Diamond
  /\ walk.maxDepth = 3
  /\ LeafPaths(walk) = {<<1, 2, 4>>, <<1, 3, 4>>}
  /\ Len(walk.paths) = 1
  /\ HopAddresses(walk.paths[1]) = <<2, 4>>


(***************************************************************************)
(* Circular flows.                                                         *)
(***************************************************************************)
\* the simple cycles of T through p[1] that extend the path p of distinct
\* addresses, as address lists that end where they start
RECURSIVE CyclesFrom(_, _)
CyclesFrom(T, p) ==
  LET last == p[Len(p)]
      next == {t.to : t \in {t \in T : t.from = last}}
  IN (IF p[1] \in next THEN {Append(p, p[1])} ELSE {})
       \cup UNION {CyclesFrom(T, Append(p, b)) : b \in next \ Elements(p)}

\* the simple cycles of at least 3 transfers that start and end at address
SimpleCycles(T, address) ==
  {c \in CyclesFrom(T, <<address>>) : Len(c) > 3}

Reported(c) == {c.flows[k].addresses : k \in 1..Len(c.flows)}

\* C33: detectCircularFlows(address) reports every simple cycle of at least
\* 3 transfers that starts and ends at address, each as an address list
\* whose first and last element is address; two cycles that share an
\* intermediate address are both reported
C33_EveryCycleReported ==
  cyc.pc = "returned" =>
    /\ SimpleCycles(cyc.all, cyc.start) \subseteq Reported(cyc)
    /\ \A c \in Reported(cyc) : c[1] = cyc.start /\ c[Len(c)] = cyc.start

\* the search had every transfer of the cycles 1 -> 2 -> 3 -> 1 and
\* 1 -> 4 -> 3 -> 1 in its map and reported the first of them only
C33_SharedAddressHidCycle ==
  /\ cyc.pc = "returned"
  /\ cyc.start = 1
  /\ cyc.all = TwoCycles
  /\ cyc.transfers = TwoCycles
  /\ cyc.order = "ascending"
  /\ SimpleCycles(cyc.all, 1) = {<<1, 2, 3, 1>>, <<1, 4, 3, 1>>}
  /\ Reported(cyc) = {<<1, 2, 3, 1>>}


(***************************************************************************)
(* Termination of the searches.                                            *)
(***************************************************************************)
\* the calls of a traversal that fetched transfers and went into their
\* loop are all below maxDepth
ExpandedBelowMaxDepth ==
  \A k \in 1..Len(walk.stack) :
    walk.stack[k].stage = "loop" => walk.stack[k].depth < walk.maxDepth

\* a step that adds an address to the visited set, which comes right
\* before the fetch of its transfers, is the step of a call below maxDepth
VisitsBelowMaxDepth ==
  (walk.pc = "running" /\ ~(walk'.visited \subseteq walk.visited)) =>
    walk.stack[Len(walk.stack)].depth < walk.maxDepth

\* C32: on every transfer set, with cycles and self-transfers, a forward
\* or backward traversal and a search for circular flows terminate, and no
\* branch of a traversal expands an address at depth maxDepth or beyond
C32_SearchesTerminate ==
  /\ []ExpandedBelowMaxDepth
  /\ [][VisitsBelowMaxDepth]_vars
  /\ (walk.pc = "running") ~> (walk.pc = "returned")
  /\ (cyc.pc = "running") ~> (cyc.pc = "returned")

\* a traversal over a self-transfer and a cycle of two transfers, with the
\* largest maxDepth, has returned
C32_CyclicLedgerWalked ==
  /\ walk.pc = "returned"
  /\ walk.maxDepth = MaxDepthLimit
  /\ walk.transfers = {Transfer(1, 1, 1), Transfer(1, 2, 1), Transfer(2, 1, 1)}
  /\ walk.start = 1


(***************************************************************************)
(* Proximity.                                                              *)
(***************************************************************************)
\* the addresses one outgoing transfer away
Successors(T, a) == {t.to : t \in {t \in T : t.from = a}}

\* a listed address is reachable from a by at most 2 outgoing transfers
ListedWithin2Hops(T, listed, a) ==
  \/ a \in listed
  \/ \E b \in Successors(T, a) :
       \/ b \in listed
       \/ \E c \in Successors(T, b) : c \in listed

\* no address of the check has more than 10 different destinations
WithinFanOut(T) ==
  \A t \in T : Cardinality(Successors(T, t.from)) <= FanOut

\* C34: a proximity check flags an address exactly when a listed (mixer,
\* respectively sanctioned) address is reachable from it by a path of at
\* most 2 outgoing transfers, in whatever order the neighbours are
\* explored and whether or not an address is also reachable by a longer
\* path
C34_FlagsExactlyWithin2Hops ==
  (prox.pc = "answered" /\ WithinFanOut(prox.transfers)) =>
    (prox.within2Hops <=>
       ListedWithin2Hops(prox.transfers, prox.listed, prox.address))

\* with 1 -> 2 -> 3 -> 4 and 1 -> 3, address 4 a mixer two transfers from
\* 1, the check of 1 that went through 2 first found nothing
C34_LongerPathHidMixer ==
  /\ prox.pc = "answered"
  /\ prox.check = "mixer"
  /\ prox.address = 1
  /\ prox.transfers = Shortcut
  /\ prox.listed = {4}
  /\ prox.order = "ascending"
  /\ ListedWithin2Hops(prox.transfers, prox.listed, prox.address)
  /\ ~prox.within2Hops
  /\ prox.visited = {1, 2, 3}


(***************************************************************************)
(* The entity registry.                                                    *)
(***************************************************************************)
\* the last operation was identifyEntity for an address whose row has
\* been written since the start
LookedUpAfterWrite ==
  /\ ent.last.op = "identifyEntity"
  /\ ent.last.address \in ent.written

\* C35: after a write to an entity, identifyEntity(address) returns the
\* written values; neither the key-value entry nor the in-process map
\* serves the entity as it was before the write
C35_LookupReturnsWritten ==
  LookedUpAfterWrite =>
    /\ ent.last.returned.riskLevel = ent.rows[ent.last.address].riskLevel
    /\ ent.last.returned.riskScore = ent.rows[ent.last.address].riskScore

\* flagEntityAsRisky set the row of address 1 to high / 60 and deleted the
\* key-value entry; the lookup that followed returned low / 0 from the
\* in-process map and stored it in the key-value store again
C35_FlaggedEntityServedStale ==
  /\ LookedUpAfterWrite
  /\ ent.last.address = 1
  /\ ent.lastWrite = [op |-> "flagEntityAsRisky", address |-> 1]
  /\ ent.rows[1].riskScore = 60
  /\ ent.last.returned.riskScore = 0
  /\ ent.last.returned = ent.entityCache[1]
  /\ ent.kv[1] = ent.entityCache[1]


(***************************************************************************)
(* The limiter table.                                                      *)
(***************************************************************************)
KeysIn(cache) == {cache[n].key : n \in 1..Len(cache)}

\* the entries a set removed: those of the table before whose key is not
\* in the table after
Evicted(set) ==
  {set.before[n] : n \in {n \in 1..Len(set.before) :
                            set.before[n].key \notin KeysIn(set.after)}}

\* C36: the table holds at most its capacity of entries (1000 in the
\* program), and whenever an insertion evicts an entry, that entry is the
\* least recently used one and the table was full with the inserted key
\* absent
C36_BoundedLruEviction ==
  /\ Len(lru.cache) <= TableSize
  /\ Cardinality(KeysIn(lru.cache)) = Len(lru.cache)
  /\ \A e \in Evicted(lru.last) :
       /\ Len(lru.last.before) = TableSize
       /\ lru.last.key \notin KeysIn(lru.last.before)
       /\ \A n \in 1..Len(lru.last.before) :
            e.lastUsed <= lru.last.before[n].lastUsed
       /\ Cardinality(Evicted(lru.last)) = 1

\* a third key came to the full table: the entry used earlier than the
\* other went, though it had been inserted after it
C36_OlderEntryEvicted ==
  /\ Len(lru.last.before) = TableSize
  /\ Len(lru.cache) = TableSize
  /\ \E e \in Evicted(lru.last) :
       /\ e = lru.last.before[2]
       /\ e.lastUsed < lru.last.before[1].lastUsed
  /\ lru.last.key \in KeysIn(lru.cache)


(***************************************************************************)
(* Ingestion.                                                              *)
(***************************************************************************)
\* C37: after any number of sequential or concurrent processTransaction
\* calls for a signature the store holds the transaction at most once, with
\* exactly one copy of its transfers, and a call that fails has left
\* neither the transaction row nor any of its transfers
C37_IngestAtomicIdempotent ==
  /\ \A g \in IngestSignatures :
       store.transfers[g] =
         (IF g \in store.transactions THEN TransfersPerTx ELSE 0)
  /\ \A c \in IngestCalls :
       store.calls[c].pc = "threw" => ~store.calls[c].committed

\* a call threw after its COMMIT: the transaction and its transfers are in
\* the store
C37_ThrewAfterCommit ==
  \E c \in IngestCalls :
    /\ store.calls[c].pc = "threw"
    /\ store.calls[c].fails = "entity"
    /\ store.calls[c].committed
    /\ store.calls[c].signature \in store.transactions
    /\ store.transfers[store.calls[c].signature] = TransfersPerTx


(***************************************************************************)
(* The indexer.                                                            *)
(***************************************************************************)
\* C40: at most one indexing loop runs at a time, and isRunning is true
\* only while a loop is executing, so that after a loop completed, failed,
\* was stopped, or the process restarted, startIndexing starts indexing
\* and does not return as already running
C40_FlagMeansOneLoop ==
  /\ Cardinality(Executing(indexer)) <= 1
  /\ indexer.isRunning => Executing(indexer) # {}
  /\ indexer.started = "already running" => Executing(indexer) # {}

\* after a restart no loop is executing, initialize() has restored
\* isRunning = true from the state a loop saved, and startIndexing returned
\* as already running
C40_RestoredFlagBlocksStart ==
  /\ Executing(indexer) = {}
  /\ indexer.saved = "running"
  /\ indexer.isRunning
  /\ indexer.started = "already running"


(***************************************************************************)
(* The limit a limiter enforces.                                           *)
(***************************************************************************)
\* the request went through limiter.consume
Limited(i) ==
  /\ reqs[i].kind = "metered"
  /\ reqs[i].rlOut \in {"admitted", "rejected"}

\* C38: the points of the limiter a request is counted against are the
\* per-minute limit of the tenant's plan, as read when the request was
\* authenticated or as it is when the request reaches the limiter; a
\* limiter built under another plan's limit is not used
C38_LimiterHasPlanRate ==
  \A i \in Slots :
    Limited(i) => reqs[i].points \in {reqs[i].rate, reqs[i].subRate}

\* after a change from pro to starter a request authenticated with the
\* starter limit was counted against the limiter built with the pro limit
\* and admitted as the second request of its minute
C38_OldLimiterReused ==
  \E i \in Slots :
    /\ Limited(i)
    /\ reqs[i].rate = StarterRate
    /\ reqs[i].subRate = StarterRate
    /\ reqs[i].points = ProRate
    /\ reqs[i].rlOut = "admitted"
    /\ reqs[i].winCount = ProRate


(***************************************************************************)
(* The frame of a renewal.                                                 *)
(***************************************************************************)
\* request i is a user.renewed event whose handler has run its reset
RenewalHandled(i) ==
  /\ reqs[i].event = "user.renewed"
  /\ reqs[i].handled

\* C39: handling a user.renewed event for user U changes only U's
\* subscription: every other user's subscription row is the same after
\* the event as before it
C39_RenewalTouchesOnlyItsUser ==
  \A i \in Slots :
    RenewalHandled(i) =>
      \A s \in reqs[i].rowsBefore :
        s.user_id # reqs[i].uid => s \in reqs[i].rowsAfter

\* the renewal of one user moved the billing period of another user's
\* active subscription
C39_OtherSubscriptionReset ==
  \E i \in Slots :
    /\ RenewalHandled(i)
    /\ \E s \in reqs[i].rowsBefore :
         /\ s.user_id # reqs[i].uid
         /\ s.status = "active"
         /\ s \notin reqs[i].rowsAfter
         /\ \E t \in reqs[i].rowsAfter :
              /\ t.user_id = s.user_id
              /\ t.billing_period_start = s.billing_period_end
              /\ t.current_usage = 0

=============================================================================
